---------------------------- MODULE Spec2Model ----------------------------
(***************************************************************************)
(* A model of RLook's disk backend (rlook/disk/diskread.py and             *)
(* rlook/disk/formats.py): format detection, the DiskBytes field cursor,   *)
(* parameter-block decoding, Disk construction, wave addressing and the    *)
(* 12-bit sample unpacking of Disk.convert_wave.                           *)
(*                                                                         *)
(* A bytes object is modelled sparsely as a record                         *)
(*     [size |-> n, fill |-> byte, ov |-> [position -> byte]]              *)
(* whose byte at position i (0 <= i < size) is ov[i] where given and fill  *)
(* elsewhere, so that full-size disk images (737,280 bytes) can be         *)
(* decoded with the program's real offsets and layouts.                    *)
(***************************************************************************)
EXTENDS Integers, Sequences, FiniteSets, TLC

(***************************************************************************)
(* Program constants.                                                      *)
(***************************************************************************)
\* diskread.py:43
MAX_FILE_SIZE == 2000000
\* diskread.py:199, 200
SEGMENT_SIZE == 18432
\* the size of bank A as the comments of lines 297 and 360 give it
BANK_SIZE_as_commented == 330156
BANK_SIZE == 331776
\* diskread.py:224, the expected image size
IMAGE_SIZE == 737280
\* diskread.py:229, 243, 244: the system and wave regions read from the file
SYS_READ == 64512
WAVE_SEEK == 73728
WAVE_READ == 663552
\* diskread.py:249, 255: the addresses of the Function and MIDI blocks
FUNCTION_ADDR == 68608
\* the MIDI address as it would be if the MIDI block began where the
\* 384 bytes of the S50 func_fmt end
MIDI_ADDR_behind_S50_func_fmt == FUNCTION_ADDR + 384
MIDI_ADDR == 68832

(***************************************************************************)
(* Integer helpers: Python's unbounded-int <<, >>, & and |.                *)
(***************************************************************************)
RECURSIVE Pow(_, _)
Pow(b, n) == IF n = 0 THEN 1 ELSE b * Pow(b, n - 1)

Min(x, y) == IF x < y THEN x ELSE y
Max(x, y) == IF x > y THEN x ELSE y

Shl(x, n) == x * Pow(2, n)
Shr(x, n) == x \div Pow(2, n)

\* bit k of x, for k in 0..3
Bit(x, k) == (x \div (IF k = 0 THEN 1 ELSE IF k = 1 THEN 2 ELSE IF k = 2 THEN 4 ELSE 8)) % 2

\* & and | on two values below 16
NibbleAnd(x, y) ==
  Bit(x, 0) * Bit(y, 0) + 2 * (Bit(x, 1) * Bit(y, 1))
    + 4 * (Bit(x, 2) * Bit(y, 2)) + 8 * (Bit(x, 3) * Bit(y, 3))
NibbleOr(x, y) == x + y - NibbleAnd(x, y)

\* x & y and x | y on non-negative integers, four bits at a time
RECURSIVE BitAnd(_, _)
BitAnd(x, y) ==
  IF x = 0 \/ y = 0 THEN 0
  ELSE 16 * BitAnd(x \div 16, y \div 16) + NibbleAnd(x % 16, y % 16)

RECURSIVE BitOr(_, _)
BitOr(x, y) ==
  IF x = 0 THEN y
  ELSE IF y = 0 THEN x
  ELSE 16 * BitOr(x \div 16, y \div 16) + NibbleOr(x % 16, y % 16)

(***************************************************************************)
(* Bytes objects.                                                          *)
(***************************************************************************)
\* b[i] for 0 <= i < len(b)
ByteAt(b, i) == IF i \in DOMAIN b.ov THEN b.ov[i] ELSE b.fill

\* the bytes b[lo:hi] materialised as a sequence, for 0 <= lo <= hi <= len(b)
Bytes(b, lo, hi) == [k \in 1..(hi - lo) |-> ByteAt(b, lo + k - 1)]

\* Python's slice bounds for b[start:end] with non-negative start;
\* end = -1 stands for None (to the end of the object)
SliceLo(b, start) == Min(start, b.size)
SliceHi(b, start, end) ==
  IF end = -1 THEN b.size ELSE Max(SliceLo(b, start), Min(end, b.size))

\* a bytes object given in full as a sequence
FromSeq(s) == [size |-> Len(s), fill |-> 0, ov |-> [i \in 0..(Len(s) - 1) |-> s[i + 1]]]

\* int.from_bytes as it would be with byteorder='little'
RECURSIVE from_bytes_little(_)
from_bytes_little(bs) ==
  IF bs = <<>> THEN 0
  ELSE bs[1] + 256 * from_bytes_little(SubSeq(bs, 2, Len(bs)))

\* int.from_bytes(bs, byteorder='big', signed=False)
RECURSIVE from_bytes_unsigned(_)
from_bytes_unsigned(bs) ==
  IF bs = <<>> THEN 0
  ELSE 256 * from_bytes_unsigned(SubSeq(bs, 1, Len(bs) - 1)) + bs[Len(bs)]

\* int.from_bytes(bs, byteorder='big', signed=True)
from_bytes_signed(bs) ==
  LET u == from_bytes_unsigned(bs)
  IN  IF bs # <<>> /\ bs[1] >= 128 THEN u - Pow(256, Len(bs)) ELSE u

\* bytes.decode('ascii') succeeds exactly when every byte is below 128;
\* the decoded text is kept as its sequence of character codes
IsAscii(bs) == \A k \in 1..Len(bs) : bs[k] < 128

\* struct.unpack('<n>b', bs): n signed 8-bit values, struct.error unless
\* len(bs) = n
SignedByte(x) == IF x >= 128 THEN x - 256 ELSE x
unpack_b(bs) == [k \in 1..Len(bs) |-> SignedByte(bs[k])]

\* struct.pack('H', v) on the little-endian hosts the program runs on
pack_H(v) == <<v % 256, v \div 256>>

(***************************************************************************)
(* formats.py: the two format descriptors and their field layouts.  A      *)
(* layout is a sequence of [name, type, size] records, in file order.      *)
(***************************************************************************)
S550_tone_fmt ==
  << [name |-> "NAME", type |-> "ascii", size |-> 8],
     [name |-> "TONE OUTPUT ASSIGN", type |-> "int", size |-> 1],
     [name |-> "SOURCE TONE", type |-> "int", size |-> 1],
     [name |-> "ORIG/SUB TONE", type |-> "int", size |-> 1],
     [name |-> "FREQUENCY", type |-> "int", size |-> 1],
     [name |-> "ORIG KEY NUMBER", type |-> "int", size |-> 1],
     [name |-> "WAVE BANK", type |-> "int", size |-> 1],
     [name |-> "WAVE SEGMENT TOP", type |-> "int", size |-> 1],
     [name |-> "WAVE SEGMENT LENGTH", type |-> "int", size |-> 1],
     [name |-> "START POINT", type |-> "int", size |-> 3],
     [name |-> "END POINT", type |-> "int", size |-> 3],
     [name |-> "LOOP POINT", type |-> "int", size |-> 3],
     [name |-> "LOOP MODE", type |-> "int", size |-> 1],
     [name |-> "TVA LFO DEPTH", type |-> "int", size |-> 1],
     [name |-> "dummy1", type |-> "dummy", size |-> 1],
     [name |-> "LFO RATE", type |-> "int", size |-> 1],
     [name |-> "LFO SYNC", type |-> "int", size |-> 1],
     [name |-> "LFO DELAY", type |-> "int", size |-> 1],
     [name |-> "dummy2", type |-> "dummy", size |-> 1],
     [name |-> "LFO MODE", type |-> "int", size |-> 1],
     [name |-> "OSC LFO DEPTH", type |-> "int", size |-> 1],
     [name |-> "LFO POLARITY", type |-> "int", size |-> 1],
     [name |-> "LFO OFFSET", type |-> "int", size |-> 1],
     [name |-> "TRANSPOSE", type |-> "signed_int", size |-> 1],
     [name |-> "FINE TUNE", type |-> "signed_int", size |-> 1],
     [name |-> "TVF CUT OFF", type |-> "int", size |-> 1],
     [name |-> "TVF RESONANCE", type |-> "int", size |-> 1],
     [name |-> "TVF KEY FOLLOW", type |-> "int", size |-> 1],
     [name |-> "dummy3", type |-> "dummy", size |-> 1],
     [name |-> "TVF LFO DEPTH", type |-> "int", size |-> 1],
     [name |-> "TVF EG DEPTH", type |-> "int", size |-> 1],
     [name |-> "TVF EG POLARITY", type |-> "int", size |-> 1],
     [name |-> "TVF LEVEL CURVE", type |-> "int", size |-> 1],
     [name |-> "TVF KEY RATE FOLLOW", type |-> "int", size |-> 1],
     [name |-> "TVF VELOCITY RATE FOLLOW", type |-> "int", size |-> 1],
     [name |-> "dummy4", type |-> "dummy", size |-> 1],
     [name |-> "TVF SWITCH", type |-> "int", size |-> 1],
     [name |-> "BENDER SWITCH", type |-> "int", size |-> 1],
     [name |-> "TVA ENV SUSTAIN POINT", type |-> "int", size |-> 1],
     [name |-> "TVA ENV END POINT", type |-> "int", size |-> 1],
     [name |-> "TVA ENV", type |-> "multi", size |-> 16],
     [name |-> "dummy5", type |-> "dummy", size |-> 1],
     [name |-> "TVA ENV KEY-RATE", type |-> "int", size |-> 1],
     [name |-> "LEVEL", type |-> "int", size |-> 1],
     [name |-> "ENV VEL-RATE", type |-> "int", size |-> 1],
     [name |-> "Recording Params", type |-> "multi", size |-> 12],
     [name |-> "ZOOM T", type |-> "int", size |-> 1],
     [name |-> "ZOOM L", type |-> "int", size |-> 1],
     [name |-> "COPY SOURCE", type |-> "int", size |-> 1],
     [name |-> "LOOP TUNE", type |-> "signed_int", size |-> 1],
     [name |-> "TVA LEVEL CURVE", type |-> "int", size |-> 1],
     [name |-> "dummy6", type |-> "dummy", size |-> 12],
     [name |-> "LOOP LENGTH", type |-> "int", size |-> 3],
     [name |-> "PITCH FOLLOW", type |-> "int", size |-> 1],
     [name |-> "ENV ZOOM", type |-> "int", size |-> 1],
     [name |-> "TVF ENV SUSTAIN POINT", type |-> "int", size |-> 1],
     [name |-> "TVF ENV END POINT", type |-> "int", size |-> 1],
     [name |-> "TVF ENV", type |-> "multi", size |-> 16],
     [name |-> "AFTER TOUCH SWITCH", type |-> "int", size |-> 1],
     [name |-> "dummy7", type |-> "dummy", size |-> 2]>>

S550_patch_fmt ==
  << [name |-> "NAME", type |-> "ascii", size |-> 12],
     [name |-> "BEND RANGE", type |-> "int", size |-> 1],
     [name |-> "dummy1", type |-> "dummy", size |-> 1],
     [name |-> "AFTER TOUCH SENSE", type |-> "int", size |-> 1],
     [name |-> "KEY MODE", type |-> "int", size |-> 1],
     [name |-> "VELOCITY SW THRESHOLD", type |-> "int", size |-> 1],
     [name |-> "TONE TO KEY 1", type |-> "multi", size |-> 109],
     [name |-> "TONE TO KEY 2", type |-> "multi", size |-> 109],
     [name |-> "COPY SOURCE", type |-> "int", size |-> 1],
     [name |-> "OCTAVE SHIFT", type |-> "signed_int", size |-> 1],
     [name |-> "OUTPUT LEVEL", type |-> "int", size |-> 1],
     [name |-> "dummy2", type |-> "dummy", size |-> 1],
     [name |-> "DETUNE", type |-> "signed_int", size |-> 1],
     [name |-> "VELOCITY MIX RATIO", type |-> "int", size |-> 1],
     [name |-> "AFTER TOUCH ASSIGN", type |-> "int", size |-> 1],
     [name |-> "KEY ASSIGN", type |-> "int", size |-> 1],
     [name |-> "OUTPUT ASSIGN", type |-> "int", size |-> 1],
     [name |-> "dummy3", type |-> "dummy", size |-> 12]>>

S550_func_fmt ==
  << [name |-> "MASTER TUNE", type |-> "signed_int", size |-> 1],
     [name |-> "dummy1", type |-> "dummy", size |-> 13],
     [name |-> "dummy2", type |-> "dummy", size |-> 1],
     [name |-> "dummy3", type |-> "dummy", size |-> 1],
     [name |-> "VOICE MODE", type |-> "int", size |-> 1],
     [name |-> "MULTI MIDI RX-CH", type |-> "multi", size |-> 8],
     [name |-> "MULTI PATCH NUMBER", type |-> "multi", size |-> 8],
     [name |-> "dummy4", type |-> "dummy", size |-> 9],
     [name |-> "KEYBOARD DISPLAY", type |-> "int", size |-> 1],
     [name |-> "MULTI LEVEL", type |-> "multi", size |-> 8],
     [name |-> "DISK LABEL", type |-> "raw", size |-> 60],
     [name |-> "dummy5", type |-> "dummy", size |-> 4],
     [name |-> "EXTERNAL CONTROLLER", type |-> "int", size |-> 1],
     [name |-> "dummy6", type |-> "dummy", size |-> 108]>>

S550_midi_fmt ==
  << [name |-> "dummy1", type |-> "dummy", size |-> 64],
     [name |-> "RX CHANNEL", type |-> "multi", size |-> 8],
     [name |-> "RX PROGRAM CHANGE", type |-> "multi", size |-> 8],
     [name |-> "RX BENDER", type |-> "multi", size |-> 8],
     [name |-> "RX MODULATION", type |-> "multi", size |-> 8],
     [name |-> "RX HOLD", type |-> "multi", size |-> 8],
     [name |-> "RX AFTER TOUCH", type |-> "multi", size |-> 8],
     [name |-> "RX VOLUME", type |-> "multi", size |-> 8],
     [name |-> "RX BEND RANGE", type |-> "multi", size |-> 8],
     [name |-> "dummy2", type |-> "dummy", size |-> 1],
     [name |-> "SYSTEM EXCLUSIVE", type |-> "int", size |-> 1],
     [name |-> "DEVICE ID", type |-> "int", size |-> 1],
     [name |-> "RX PROGRAM CHANGE NUMBER", type |-> "multi", size |-> 32],
     [name |-> "dummy3", type |-> "dummy", size |-> 125]>>

S50_tone_fmt ==
  << [name |-> "NAME", type |-> "ascii", size |-> 8],
     [name |-> "dummy1", type |-> "dummy", size |-> 1],
     [name |-> "SOURCE TONE", type |-> "int", size |-> 1],
     [name |-> "ORIG/SUB TONE", type |-> "int", size |-> 1],
     [name |-> "FREQUENCY", type |-> "int", size |-> 1],
     [name |-> "ORIG KEY NUMBER", type |-> "int", size |-> 1],
     [name |-> "WAVE BANK", type |-> "int", size |-> 1],
     [name |-> "WAVE SEGMENT TOP", type |-> "int", size |-> 1],
     [name |-> "WAVE SEGMENT LENGTH", type |-> "int", size |-> 1],
     [name |-> "START POINT", type |-> "int", size |-> 3],
     [name |-> "END POINT", type |-> "int", size |-> 3],
     [name |-> "LOOP POINT", type |-> "int", size |-> 3],
     [name |-> "LOOP MODE", type |-> "int", size |-> 1],
     [name |-> "dummy2", type |-> "dummy", size |-> 2],
     [name |-> "LFO RATE", type |-> "int", size |-> 1],
     [name |-> "dummy3", type |-> "dummy", size |-> 1],
     [name |-> "LFO DELAY", type |-> "int", size |-> 1],
     [name |-> "dummy4", type |-> "dummy", size |-> 2],
     [name |-> "LFO DEPTH", type |-> "int", size |-> 1],
     [name |-> "dummy5", type |-> "dummy", size |-> 3],
     [name |-> "FINE TUNE", type |-> "int", size |-> 1],
     [name |-> "dummy6", type |-> "dummy", size |-> 13],
     [name |-> "TVA ENV SUSTAIN POINT", type |-> "int", size |-> 1],
     [name |-> "TVA ENV END POINT", type |-> "int", size |-> 1],
     [name |-> "TVA ENV", type |-> "multi", size |-> 16],
     [name |-> "dummy7", type |-> "dummy", size |-> 1],
     [name |-> "ENV KEY-RATE", type |-> "int", size |-> 1],
     [name |-> "LEVEL", type |-> "int", size |-> 1],
     [name |-> "ENV VEL-RATE", type |-> "int", size |-> 1],
     [name |-> "ENV THRESHOLD", type |-> "int", size |-> 1],
     [name |-> "REC PRE-TRIGER", type |-> "int", size |-> 1],
     [name |-> "REC SAMPLING FREQUENCY", type |-> "int", size |-> 1],
     [name |-> "REC START POINT", type |-> "int", size |-> 3],
     [name |-> "REC END POINT", type |-> "int", size |-> 3],
     [name |-> "REC LOOP POINT", type |-> "int", size |-> 3],
     [name |-> "ZOOM T", type |-> "int", size |-> 1],
     [name |-> "ZOOM L", type |-> "int", size |-> 1],
     [name |-> "COPY SOURCE", type |-> "int", size |-> 1],
     [name |-> "LOOP TUNE", type |-> "signed_int", size |-> 1],
     [name |-> "LEVEL CURVE", type |-> "int", size |-> 1],
     [name |-> "dummy8", type |-> "dummy", size |-> 12],
     [name |-> "LOOP LENGTH", type |-> "int", size |-> 3],
     [name |-> "PITCH FOLLOW", type |-> "int", size |-> 1],
     [name |-> "ENV ZOOM", type |-> "int", size |-> 1],
     [name |-> "dummy9", type |-> "dummy", size |-> 21]>>

S50_patch_fmt ==
  << [name |-> "NAME", type |-> "ascii", size |-> 12],
     [name |-> "BEND RANGE", type |-> "int", size |-> 1],
     [name |-> "dummy1", type |-> "dummy", size |-> 1],
     [name |-> "AFTER TOUCH SENSE", type |-> "int", size |-> 1],
     [name |-> "dummy2", type |-> "dummy", size |-> 4],
     [name |-> "KEY MODE", type |-> "int", size |-> 1],
     [name |-> "VELOCITY SW THRESHOLD", type |-> "int", size |-> 1],
     [name |-> "dummy3", type |-> "dummy", size |-> 19],
     [name |-> "TONE TO KEY 1", type |-> "multi", size |-> 128],
     [name |-> "TONE TO KEY 2", type |-> "multi", size |-> 128],
     [name |-> "COPY SOURCE", type |-> "int", size |-> 1],
     [name |-> "OCTAVE SHIFT", type |-> "int", size |-> 1],
     [name |-> "OUTPUT LEVEL", type |-> "int", size |-> 1],
     [name |-> "MODULATION DEPTH", type |-> "int", size |-> 1],
     [name |-> "DETUNE", type |-> "dummy", size |-> 1],
     [name |-> "VELOCITY MIX RATIO", type |-> "int", size |-> 1],
     [name |-> "AFTER TOUCH ASSIGN", type |-> "int", size |-> 1],
     [name |-> "dummy4", type |-> "dummy", size |-> 209]>>

S50_func_fmt ==
  << [name |-> "MASTER TUNE", type |-> "signed_int", size |-> 1],
     [name |-> "dummy1", type |-> "dummy", size |-> 3],
     [name |-> "CONTROLLER ASSIGN", type |-> "int", size |-> 1],
     [name |-> "DP-2 ASSIGN", type |-> "int", size |-> 1],
     [name |-> "dummy2", type |-> "dummy", size |-> 8],
     [name |-> "AUDIO TRIG", type |-> "int", size |-> 1],
     [name |-> "SYSTEM MODE", type |-> "int", size |-> 1],
     [name |-> "VOICE MODE", type |-> "int", size |-> 1],
     [name |-> "MULTI MIDI RX-CH", type |-> "multi", size |-> 8],
     [name |-> "MULTI PATCH NUMBER", type |-> "multi", size |-> 8],
     [name |-> "MULTI TONE NUMBER", type |-> "multi", size |-> 8],
     [name |-> "dummy3", type |-> "dummy", size |-> 1],
     [name |-> "KEYBOARD ASSIGN", type |-> "int", size |-> 1],
     [name |-> "MULTI LEVEL", type |-> "multi", size |-> 8],
     [name |-> "DISK LABEL", type |-> "raw", size |-> 60],
     [name |-> "MIDI CONTROL CHANGE NUMBER", type |-> "int", size |-> 1],
     [name |-> "PARAMETER INITIALIZE", type |-> "int", size |-> 1],
     [name |-> "DT-100", type |-> "int", size |-> 1],
     [name |-> "dummy4", type |-> "dummy", size |-> 270]>>

S50_midi_fmt ==
  << [name |-> "dummy1", type |-> "dummy", size |-> 8],
     [name |-> "TX CHANNEL", type |-> "int", size |-> 1],
     [name |-> "TX PROGRAM CHANGE", type |-> "int", size |-> 1],
     [name |-> "TX BENDER", type |-> "int", size |-> 1],
     [name |-> "TX MODULATION", type |-> "int", size |-> 1],
     [name |-> "TX HOLD", type |-> "int", size |-> 1],
     [name |-> "TX AFTER TOUCH", type |-> "int", size |-> 1],
     [name |-> "TX VOLUME", type |-> "int", size |-> 1],
     [name |-> "dummy2", type |-> "dummy", size |-> 1],
     [name |-> "RX PROGRAM NUMBER", type |-> "multi", size |-> 8],
     [name |-> "TX PROGRAM NUMBER", type |-> "multi", size |-> 8],
     [name |-> "RX CHANNEL", type |-> "multi", size |-> 8],
     [name |-> "RX PROGRAM CHANGE", type |-> "multi", size |-> 8],
     [name |-> "RX BENDER", type |-> "multi", size |-> 8],
     [name |-> "RX MODULATION", type |-> "multi", size |-> 8],
     [name |-> "RX HOLD", type |-> "multi", size |-> 8],
     [name |-> "RX AFTER TOUCH", type |-> "multi", size |-> 8],
     [name |-> "RX VOLUME", type |-> "multi", size |-> 8],
     [name |-> "RX BEND RANGE", type |-> "multi", size |-> 8],
     [name |-> "TX BEND RANGE", type |-> "int", size |-> 1],
     [name |-> "SYSTEM EXCLUSIVE", type |-> "int", size |-> 1],
     [name |-> "DEVICE ID", type |-> "int", size |-> 1],
     [name |-> "dummy3", type |-> "dummy", size |-> 285]>>

S550 ==
  [FORMAT_STRING |-> "S550", SYSTEM_SIZE |-> 64512, PATCH_SIZE |-> 256,
   TONE_SIZE |-> 128, WAVE_SIZE |-> 660312, TONES_OFFSET |-> 69120,
   PATCHES_OFFSET |-> 64512, FUNCTION_OFFSET |-> 68608, MIDI_OFFSET |-> 68832,
   WAVE_OFFSET |-> 73728, PATCH_COUNT |-> 16, TONE_COUNT |-> 32,
   tone_fmt |-> S550_tone_fmt, patch_fmt |-> S550_patch_fmt,
   func_fmt |-> S550_func_fmt, midi_fmt |-> S550_midi_fmt]

\* the S50 descriptor as it would be with the patch stride of the S550
S50_patch_stride_256 ==
  [FORMAT_STRING |-> "S-50", SYSTEM_SIZE |-> 64512, PATCH_SIZE |-> 256,
   TONE_SIZE |-> 128, WAVE_SIZE |-> 660312, TONES_OFFSET |-> 69120,
   PATCHES_OFFSET |-> 64512, FUNCTION_OFFSET |-> 68608, MIDI_OFFSET |-> 68832,
   WAVE_OFFSET |-> 73728, PATCH_COUNT |-> 8, TONE_COUNT |-> 32,
   tone_fmt |-> S50_tone_fmt, patch_fmt |-> S50_patch_fmt,
   func_fmt |-> S50_func_fmt, midi_fmt |-> S50_midi_fmt]

S50 ==
  [FORMAT_STRING |-> "S-50", SYSTEM_SIZE |-> 64512, PATCH_SIZE |-> 512,
   TONE_SIZE |-> 128, WAVE_SIZE |-> 660312, TONES_OFFSET |-> 69120,
   PATCHES_OFFSET |-> 64512, FUNCTION_OFFSET |-> 68608, MIDI_OFFSET |-> 68832,
   WAVE_OFFSET |-> 73728, PATCH_COUNT |-> 8, TONE_COUNT |-> 32,
   tone_fmt |-> S50_tone_fmt, patch_fmt |-> S50_patch_fmt,
   func_fmt |-> S50_func_fmt, midi_fmt |-> S50_midi_fmt]

\* the descriptor object check() returned, by the name of its class
Descriptor(cls) == IF cls = "S550" THEN S550 ELSE S50

\* the signatures check() compares with, as character codes
Str_S550 == <<83, 53, 53, 48>>
Str_S330 == <<83, 51, 51, 48>>
Str_W30 == <<87, 45, 51, 48>>
Str_S50 == <<83, 45, 53, 48>>
Str_S51 == <<83, 45, 53, 49>>

\* formats.check as it would be without the W-30 branch
check_W30_dropped(img) ==
  LET raw == Bytes(img, SliceLo(img, 4), SliceHi(img, 4, 8))
  IN  IF ~IsAscii(raw) THEN [cls |-> "none", err |-> "FormatError"]
      ELSE IF raw = Str_S550 \/ raw = Str_S330
             THEN [cls |-> "S550", err |-> "none"]
      ELSE IF raw = Str_S50 \/ raw = Str_S51
             THEN [cls |-> "S50", err |-> "none"]
      ELSE [cls |-> "none", err |-> "FormatError"]

\* formats.check(img): the class of the descriptor returned, or FormatError
check(img) ==
  LET raw == Bytes(img, SliceLo(img, 4), SliceHi(img, 4, 8))
  IN  IF ~IsAscii(raw) THEN [cls |-> "none", err |-> "FormatError"]
      ELSE LET format_str == raw
           IN  IF format_str = Str_S550 \/ format_str = Str_S330
                 THEN [cls |-> "S550", err |-> "none"]
               ELSE IF format_str = format_str /\ format_str = Str_W30
                 THEN [cls |-> "S550", err |-> "none"]
               ELSE IF format_str = Str_S50 \/ format_str = Str_S51
                 THEN [cls |-> "S50", err |-> "none"]
               ELSE [cls |-> "none", err |-> "FormatError"]

(***************************************************************************)
(* diskread.py, DiskBytes: a view [lo, hi) on a bytes object b.            *)
(***************************************************************************)
\* DiskBytes(bytesobject, offset_start, offset_end); offset_end = -1 is None
DiskBytes(b, offset_start, offset_end) ==
  [lo |-> SliceLo(b, offset_start), hi |-> SliceHi(b, offset_start, offset_end)]

\* pop(n) as it would be if the offset advanced by n past the end
pop_unclamped(b, view, n) ==
  [result |-> Bytes(b, view.lo, Min(view.lo + n, view.hi)),
   view |-> [view EXCEPT !.lo = view.lo + n]]

\* pop(n): the popped bytes (truncated at the end of the view) and the
\* advanced view
pop(b, view, n) ==
  [result |-> Bytes(b, view.lo, Min(view.lo + n, view.hi)),
   view |-> [view EXCEPT !.lo = Min(view.lo + n, view.hi)]]

\* skip(n): the advanced view
skip(view, n) == [view EXCEPT !.lo = Min(view.lo + n, view.hi)]

\* values[k] = x on a dict
SetItem(values, k, x) ==
  [n \in (DOMAIN values) \cup {k} |-> IF n = k THEN x ELSE values[n]]

\* the empty dict
EmptyDict == [n \in {} |-> 0]

\* one field as it would be read if a short multi field were unpacked
\* like the other types
read_param_multi_short(b, st, param) ==
  IF param.type = "int" THEN
    LET p == pop(b, st.view, param.size)
    IN  [view |-> p.view, err |-> "none",
         values |-> SetItem(st.values, param.name, from_bytes_unsigned(p.result))]
  ELSE IF param.type = "signed_int" THEN
    LET p == pop(b, st.view, param.size)
    IN  [view |-> p.view, err |-> "none",
         values |-> SetItem(st.values, param.name, from_bytes_signed(p.result))]
  ELSE IF param.type = "multi" THEN
    LET p == pop(b, st.view, param.size)
    IN  [view |-> p.view, err |-> "none",
         values |-> SetItem(st.values, param.name, unpack_b(p.result))]
  ELSE IF param.type = "ascii" THEN
    LET p == pop(b, st.view, param.size)
    IN  IF ~IsAscii(p.result)
          THEN [view |-> p.view, err |-> "UnicodeDecodeError", values |-> st.values]
          ELSE [view |-> p.view, err |-> "none",
                values |-> SetItem(st.values, param.name, p.result)]
  ELSE IF param.type = "raw" THEN
    LET p == pop(b, st.view, param.size)
    IN  [view |-> p.view, err |-> "none",
         values |-> SetItem(st.values, param.name, p.result)]
  ELSE IF param.type = "dummy" THEN
    [st EXCEPT !.view = skip(st.view, param.size)]
  ELSE st

\* One iteration of the loop of read_params on the cursor state
\* st = [view, values, err]: an exception ends the loop with err set.
read_param(b, st, param) ==
  IF param.type = "int" THEN
    LET p == pop(b, st.view, param.size)
    IN  [view |-> p.view, err |-> "none",
         values |-> SetItem(st.values, param.name, from_bytes_unsigned(p.result))]
  ELSE IF param.type = "signed_int" THEN
    LET p == pop(b, st.view, param.size)
    IN  [view |-> p.view, err |-> "none",
         values |-> SetItem(st.values, param.name, from_bytes_signed(p.result))]
  ELSE IF param.type = "multi" THEN
    LET p == pop(b, st.view, param.size)
    IN  IF Len(p.result) # param.size
          THEN [view |-> p.view, err |-> "struct.error", values |-> st.values]
          ELSE [view |-> p.view, err |-> "none",
                values |-> SetItem(st.values, param.name, unpack_b(p.result))]
  ELSE IF param.type = "ascii" THEN
    LET p == pop(b, st.view, param.size)
    IN  IF ~IsAscii(p.result)
          THEN [view |-> p.view, err |-> "UnicodeDecodeError", values |-> st.values]
          ELSE [view |-> p.view, err |-> "none",
                values |-> SetItem(st.values, param.name, p.result)]
  ELSE IF param.type = "raw" THEN
    LET p == pop(b, st.view, param.size)
    IN  [view |-> p.view, err |-> "none",
         values |-> SetItem(st.values, param.name, p.result)]
  ELSE IF param.type = "dummy" THEN
    [st EXCEPT !.view = skip(st.view, param.size)]
  ELSE st

\* the loop of read_params over the fields lo..hi of fmt, in order: the
\* first half of the range, then the rest; an exception ends it
RECURSIVE read_params_range(_, _, _, _, _)
read_params_range(b, st, fmt, lo, hi) ==
  IF lo > hi \/ st.err # "none" THEN st
  ELSE IF lo = hi THEN read_param(b, st, fmt[lo])
  ELSE read_params_range(b, read_params_range(b, st, fmt, lo, (lo + hi) \div 2),
                         fmt, (lo + hi) \div 2 + 1, hi)

\* read_params(values, fmt), from field k of fmt on
read_params_from(b, st, fmt, k) == read_params_range(b, st, fmt, k, Len(fmt))

read_params(b, view, values, fmt) ==
  read_params_from(b, [view |-> view, values |-> values, err |-> "none"], fmt, 1)

(***************************************************************************)
(* diskread.py, ParamBlock, Tone and Patch.  A block object is a record    *)
(* [addr, values, number, reads]; number is -1 for Function and MIDI, and  *)
(* reads counts the calls of read() on the object.  A read that raises     *)
(* gives [err |-> the exception].                                          *)
(***************************************************************************)
\* ParamBlock(block_fmt, block_addr)
ParamBlock(block_addr) ==
  [addr |-> block_addr, values |-> EmptyDict, number |-> -1, reads |-> 0]

\* ParamBlock.read(img)
ParamBlock_read(self, img, block_fmt) ==
  LET r == read_params(img, DiskBytes(img, self.addr, -1), self.values, block_fmt)
  IN  [err |-> r.err,
       obj |-> [self EXCEPT !.values = r.values, !.reads = self.reads + 1]]

\* Patch.read as it would be without the address update
Patch_read_no_stride(self, img, block_fmt, number, size) ==
  ParamBlock_read([self EXCEPT !.number = number], img, block_fmt)

\* Patch.read(img, number, size)
Patch_read(self, img, block_fmt, number, size) ==
  ParamBlock_read([self EXCEPT !.number = number, !.addr = self.addr + size * number],
                  img, block_fmt)

\* Tone.read as it would be if only a stored 1 meant 15000 Hz
Tone_read_one_only(self, img, block_fmt, number, size) ==
  LET r == ParamBlock_read([self EXCEPT !.number = number,
                                        !.addr = self.addr + size * number],
                           img, block_fmt)
  IN  IF r.err # "none" THEN r
      ELSE [r EXCEPT !.obj.values =
              SetItem(r.obj.values, "FREQUENCY",
                      IF r.obj.values["FREQUENCY"] = 1 THEN 15000 ELSE 30000)]

\* Tone.read(img, number, size), with the FREQUENCY remap after the read
Tone_read(self, img, block_fmt, number, size) ==
  LET r == ParamBlock_read([self EXCEPT !.number = number,
                                        !.addr = self.addr + size * number],
                           img, block_fmt)
  IN  IF r.err # "none" THEN r
      ELSE [r EXCEPT !.obj.values =
              SetItem(r.obj.values, "FREQUENCY",
                      IF r.obj.values["FREQUENCY"] # 0 THEN 15000 ELSE 30000)]

\* Tone.length()
Tone_length(tone) == tone.values["WAVE SEGMENT LENGTH"]

\* the elements of a tuple, as set() collects them
SetOf(t) == {t[k] : k \in 1..Len(t)}

\* tone_list as it would be if only valid tone indexes were kept
tone_list_valid_only(patch) ==
  {x \in SetOf(patch.values["TONE TO KEY 1"] \o patch.values["TONE TO KEY 2"]) :
     x \in 0..31}

\* Patch.tone_list()
tone_list(patch) ==
  SetOf(patch.values["TONE TO KEY 1"] \o patch.values["TONE TO KEY 2"])

\* the value dict.get returns for a key that is missing
None == [none |-> TRUE]

\* lookup as it would be with dict.setdefault for dict.get
ParamBlock_lookup_setdefault(self, key) ==
  IF key \in DOMAIN self.values
    THEN [val |-> self.values[key], obj |-> self]
    ELSE [val |-> None,
          obj |-> [self EXCEPT !.values = SetItem(self.values, key, None)]]

\* ParamBlock.lookup(key): the value returned and the object after the call
ParamBlock_lookup(self, key) ==
  [val |-> IF key \in DOMAIN self.values THEN self.values[key] ELSE None,
   obj |-> self]

(***************************************************************************)
(* diskread.py, Disk: pure parts.                                          *)
(***************************************************************************)
\* str.split() separators among the ASCII characters
Whitespace == {9, 10, 11, 12, 13, 28, 29, 30, 31, 32}

\* " ".join(s.split()) on a decoded text s: the text from character k on,
\* appended to the words acc joined so far
RECURSIVE join_split_from(_, _, _)
join_split_from(s, k, acc) ==
  IF k > Len(s) THEN acc
  ELSE IF s[k] \in Whitespace THEN join_split_from(s, k + 1, acc)
  ELSE IF acc # <<>> /\ k > 1 /\ s[k - 1] \in Whitespace
         THEN join_split_from(s, k + 1, acc \o <<32, s[k]>>)
  ELSE join_split_from(s, k + 1, acc \o <<s[k]>>)

\* the version text as it would be without the whitespace cleanup
join_split_untouched(s) == s

join_split(s) == join_split_from(s, 1, <<>>)

\* seq[num] on a Python list: the 1-based position, 0 for an IndexError
ListIndex(seq, num) ==
  IF 0 <= num /\ num < Len(seq) THEN num + 1
  ELSE IF num < 0 /\ -num <= Len(seq) THEN Len(seq) + num + 1
  ELSE 0

\* get_wave_start as it would be if every non-zero bank were bank B
get_wave_start_any_bank(tone) ==
  LET tone_bank == tone.values["WAVE BANK"]
      tone_seg == tone.values["WAVE SEGMENT TOP"]
  IN  (IF tone_bank # 0 THEN BANK_SIZE ELSE 0) + SEGMENT_SIZE * tone_seg

\* Disk.get_wave_start(num) on a tone of self.tones
get_wave_start(tone) ==
  LET tone_bank == tone.values["WAVE BANK"]
      tone_seg == tone.values["WAVE SEGMENT TOP"]
  IN  (IF tone_bank = 1 THEN BANK_SIZE ELSE 0) + SEGMENT_SIZE * tone_seg

\* the end address as it would be if an empty tone still took one segment
get_wave_end_least_one(tone) ==
  get_wave_start(tone) + SEGMENT_SIZE * Max(1, Tone_length(tone))

\* Disk.get_wave_end(num) on a tone of self.tones
get_wave_end(tone) ==
  get_wave_start(tone) + SEGMENT_SIZE * Tone_length(tone)

\* the chunk unpacking as it would be without the low nibble of sample B
chunk_samples_no_low_nibble(rawbytes) ==
  LET chunk == from_bytes_unsigned(rawbytes)
      sample_a == Shr(BitAnd(chunk, 16773120), 8)
      chunk2 == BitAnd(chunk, 4095)
      sample_b == BitAnd(Shl(chunk2, 8), 65280)
  IN  <<sample_a, sample_b>>

\* The body of the conversion loop of Disk.convert_wave on one full chunk:
\* the two 16-bit samples (sample_a, sample_b) of the 3 bytes rawbytes
chunk_samples(rawbytes) ==
  LET chunk == from_bytes_unsigned(rawbytes)
      sample_a == Shr(BitAnd(chunk, 16773120), 8)
      chunk2 == BitAnd(chunk, 4095)
      sample_b1 == BitAnd(Shl(chunk2, 8), 65280)
      sample_b == BitOr(sample_b1, BitAnd(Shr(chunk2, 4), 240))
  IN  <<sample_a, sample_b>>

\* the bytes object a view [lo, hi) of the bytes object b holds, as f.read
\* and slicing return it
SliceBytes(b, view) ==
  [size |-> view.hi - view.lo, fill |-> b.fill,
   ov |-> [p \in {q - view.lo : q \in {r \in DOMAIN b.ov :
                                         r >= view.lo /\ r < view.hi}}
             |-> b.ov[p + view.lo]]]

\* the setup as it would be if the range began at the tone's START POINT
convert_setup_from_start(w, tone, use_loop_points) ==
  LET tone_bank == tone.values["WAVE BANK"]
      tone_seg == tone.values["WAVE SEGMENT TOP"]
      tone_length == Tone_length(tone)
      addr0 == IF tone_bank = 1 THEN BANK_SIZE ELSE 0
      tone_addr == addr0 + SEGMENT_SIZE * tone_seg
      end_addr == tone_addr + SEGMENT_SIZE * tone_length
      first == Min(tone_addr + 3 * (tone.values["START POINT"] \div 2), end_addr)
  IN  [use_loop_points |-> use_loop_points,
       tone_freq |-> tone.values["FREQUENCY"],
       loop_start |-> tone.values["START POINT"],
       loop_end |-> tone.values["END POINT"],
       end_addr |-> end_addr,
       st |-> [view |-> DiskBytes(w, first, end_addr),
               tone_addr |-> first, samples_read |-> 0, result |-> <<>>,
               stopped |-> FALSE, log |-> <<>>]]

\* Disk.convert_wave, lines 350-371: the values read from the tone, the
\* address range, and the state of the loop before its first iteration
convert_setup(w, tone, use_loop_points) ==
  LET tone_bank == tone.values["WAVE BANK"]
      tone_seg == tone.values["WAVE SEGMENT TOP"]
      tone_length == Tone_length(tone)
      addr0 == IF tone_bank = 1 THEN BANK_SIZE ELSE 0
      tone_addr == addr0 + SEGMENT_SIZE * tone_seg
      end_addr == tone_addr + SEGMENT_SIZE * tone_length
  IN  [use_loop_points |-> use_loop_points,
       tone_freq |-> tone.values["FREQUENCY"],
       loop_start |-> tone.values["START POINT"],
       loop_end |-> tone.values["END POINT"],
       end_addr |-> end_addr,
       st |-> [view |-> DiskBytes(w, tone_addr, end_addr),
               tone_addr |-> tone_addr, samples_read |-> 0, result |-> <<>>,
               stopped |-> FALSE, log |-> <<>>]]

\* the loop test of line 372, false for good after a break
convert_running(c, st) == ~st.stopped /\ st.tone_addr < c.end_addr

\* the loop body as it would be with the end-point test before the count
convert_iter_late_stop(w, c, st) ==
  LET p == pop(w, st.view, 3)
      rawbytes == p.result
  IN  IF Len(rawbytes) # 3
        THEN [st EXCEPT !.view = p.view, !.stopped = TRUE,
                        !.log = Append(@, [size |-> Len(rawbytes),
                                           addr |-> st.tone_addr])]
        ELSE IF c.use_loop_points /\ st.samples_read >= c.loop_end
               THEN [st EXCEPT !.view = p.view, !.stopped = TRUE]
               ELSE LET s == chunk_samples(rawbytes)
                    IN  [st EXCEPT !.view = p.view,
                                   !.samples_read = @ + 2,
                                   !.result = @ \o pack_H(s[1]) \o pack_H(s[2]),
                                   !.tone_addr = @ + 3]

\* the loop body as it would be if a short chunk were padded with zero
\* bytes and converted before the loop ends
convert_iter_short_emits(w, c, st) ==
  LET p == pop(w, st.view, 3)
      rawbytes == p.result
  IN  IF Len(rawbytes) # 3
        THEN LET padded == [k \in 1..3 |-> IF k <= Len(rawbytes)
                                             THEN rawbytes[k] ELSE 0]
                 s == chunk_samples(padded)
             IN  [st EXCEPT !.view = p.view, !.stopped = TRUE,
                            !.result = IF rawbytes = <<>> THEN @
                                       ELSE @ \o pack_H(s[1]) \o pack_H(s[2]),
                            !.log = Append(@, [size |-> Len(rawbytes),
                                               addr |-> st.tone_addr])]
        ELSE LET s == chunk_samples(rawbytes)
                 samples_read == st.samples_read + 2
             IN  IF c.use_loop_points /\ samples_read >= c.loop_end
                   THEN [st EXCEPT !.view = p.view, !.stopped = TRUE,
                                   !.samples_read = samples_read]
                   ELSE [st EXCEPT !.view = p.view,
                                   !.samples_read = samples_read,
                                   !.result = @ \o pack_H(s[1]) \o pack_H(s[2]),
                                   !.tone_addr = @ + 3]

\* the loop body as it would be if the loop went on until the count had
\* passed END POINT
convert_iter_stop_past_end(w, c, st) ==
  LET p == pop(w, st.view, 3)
      rawbytes == p.result
  IN  IF Len(rawbytes) # 3
        THEN [st EXCEPT !.view = p.view, !.stopped = TRUE,
                        !.log = Append(@, [size |-> Len(rawbytes),
                                           addr |-> st.tone_addr])]
        ELSE LET s == chunk_samples(rawbytes)
                 samples_read == st.samples_read + 2
             IN  IF c.use_loop_points /\ samples_read > c.loop_end
                   THEN [st EXCEPT !.view = p.view, !.stopped = TRUE,
                                   !.samples_read = samples_read]
                   ELSE [st EXCEPT !.view = p.view,
                                   !.samples_read = samples_read,
                                   !.result = @ \o pack_H(s[1]) \o pack_H(s[2]),
                                   !.tone_addr = @ + 3]

\* lines 377-404: one iteration of the loop. A short chunk is reported with
\* tee and ends the loop; with use_loop_points the chunk that brings
\* samples_read to loop_end ends the loop unwritten.
convert_iter(w, c, st) ==
  LET p == pop(w, st.view, 3)
      rawbytes == p.result
  IN  IF Len(rawbytes) # 3
        THEN [st EXCEPT !.view = p.view, !.stopped = TRUE,
                        !.log = Append(@, [size |-> Len(rawbytes),
                                           addr |-> st.tone_addr])]
        ELSE LET s == chunk_samples(rawbytes)
                 samples_read == st.samples_read + 2
             IN  IF c.use_loop_points /\ samples_read >= c.loop_end
                   THEN [st EXCEPT !.view = p.view, !.stopped = TRUE,
                                   !.samples_read = samples_read]
                   ELSE [st EXCEPT !.view = p.view,
                                   !.samples_read = samples_read,
                                   !.result = @ \o pack_H(s[1]) \o pack_H(s[2]),
                                   !.tone_addr = @ + 3]

\* the state a run of iterations starts from, with what it writes kept
\* apart from what was written before it
convert_fresh(st) == [st EXCEPT !.result = <<>>]

\* lines 372-404: at most n iterations of the loop from the state st. The
\* iterations run in order: n iterations are four runs of a quarter of
\* them each, every run starting where the one before it ended, and what
\* the runs write is appended in that order to what came before.
RECURSIVE convert_loop(_, _, _, _)
convert_loop(w, c, st, n) ==
  IF n = 0 \/ ~convert_running(c, st) THEN st
  ELSE IF n = 1 THEN convert_iter(w, c, st)
  ELSE LET q == (n + 3) \div 4
           r1 == convert_loop(w, c, convert_fresh(st), q)
           r2 == convert_loop(w, c, convert_fresh(r1), Min(q, n - q))
           r3 == convert_loop(w, c, convert_fresh(r2), Min(q, Max(0, n - 2 * q)))
           r4 == convert_loop(w, c, convert_fresh(r3), Max(0, n - 3 * q))
       IN  IF r1.stopped THEN [r1 EXCEPT !.result = st.result \o r1.result]
           ELSE IF r2.stopped
             THEN [r2 EXCEPT !.result = st.result \o r1.result \o r2.result]
           ELSE IF r3.stopped
             THEN [r3 EXCEPT !.result = st.result \o r1.result \o r2.result
                                          \o r3.result]
           ELSE [r4 EXCEPT !.result = st.result \o r1.result \o r2.result
                                        \o r3.result \o r4.result]

\* Disk.convert_wave(num, use_loop_points) on a tone of self.tones and the
\* wave data w: the loop runs until its test fails, which takes no more
\* iterations than the address range has 3-byte steps
convert_wave(w, tone, use_loop_points) ==
  LET c == convert_setup(w, tone, use_loop_points)
      steps == (c.end_addr - c.st.tone_addr + 2) \div 3
  IN  convert_loop(w, c, c.st, steps)

\* the constants export_wav, get_wav and resample each define
FRAMERATE_OUT == 44100
WIDTH_OUT == 2
CHANNELS_OUT == 1

\* audioop.ratecv(fragment, width, nchannels, inrate, outrate, None)[0]:
\* library code, kept as the application of the converter to its arguments
ratecv(fragment, width, nchannels, inrate, outrate) ==
  [fragment |-> fragment, width |-> width, nchannels |-> nchannels,
   inrate |-> inrate, outrate |-> outrate]

\* Disk.resample(wavedata, tone_freq)
resample(wavedata, tone_freq) ==
  ratecv(wavedata, WIDTH_OUT, CHANNELS_OUT, tone_freq, FRAMERATE_OUT)

\* the WAV stream a wave.Wave_write object leaves behind after
\* setnchannels, setsampwidth, setframerate, writeframes and close:
\* library code, kept as the container parameters and the frames
wave_write(nchannels, sampwidth, framerate, frames) ==
  [nchannels |-> nchannels, sampwidth |-> sampwidth, framerate |-> framerate,
   frames |-> frames]

\* export_wav as it would be if the container declared the tone's rate
export_wav_source_rate(w, tone, use_loop_points) ==
  LET freq == tone.values["FREQUENCY"]
      raw == resample(convert_wave(w, tone, use_loop_points).result, freq)
  IN  wave_write(CHANNELS_OUT, WIDTH_OUT, freq, raw)

\* Disk.export_wav(num, filename, use_loop_points) on a tone of self.tones:
\* the content of the file written
export_wav(w, tone, use_loop_points) ==
  LET freq == tone.values["FREQUENCY"]
      raw == resample(convert_wave(w, tone, use_loop_points).result, freq)
  IN  wave_write(CHANNELS_OUT, WIDTH_OUT, FRAMERATE_OUT, raw)

\* Disk.get_wav(num, use_loop_points) on a tone of self.tones: the value of
\* the buffer returned
get_wav(w, tone, use_loop_points) ==
  LET freq == tone.values["FREQUENCY"]
      raw == resample(convert_wave(w, tone, use_loop_points).result, freq)
      buf == wave_write(CHANNELS_OUT, WIDTH_OUT, FRAMERATE_OUT, raw)
  IN  buf

(***************************************************************************)
(* Calls on one Disk from several threads. Each call keeps its arguments   *)
(* and locals on its own stack; self is what the calls share: the wave     *)
(* data and the tones of the Disk.                                         *)
(***************************************************************************)
Threads == {1, 2}

NoLoop ==
  [view |-> [lo |-> -1, hi |-> -1], tone_addr |-> 0, samples_read |-> 0,
   result |-> <<>>, stopped |-> FALSE, log |-> <<>>]
NoSetup ==
  [use_loop_points |-> FALSE, tone_freq |-> 0, loop_start |-> 0,
   loop_end |-> 0, end_addr |-> 0, st |-> NoLoop]

\* a thread that runs no call
NoCall ==
  [op |-> "none", num |-> 0, ulp |-> FALSE, wavedata |-> <<>>, tone_freq |-> 0,
   pc |-> "idle", buf |-> [size |-> -1, fill |-> 0, ov |-> EmptyDict],
   c |-> NoSetup, st |-> NoLoop, freq |-> 0, val |-> 0, err |-> "none"]
NoCalls == [t \in Threads |-> NoCall]

\* return v, raise e
Return(l, v) == [l EXCEPT !.pc = "ret", !.val = v]
Raise(l, e) == [l EXCEPT !.pc = "ret", !.err = e]

\* Disk.get_wave_count()
get_wave_count(tones_) ==
  Cardinality({k \in 1..Len(tones_) : Tone_length(tones_[k]) # 0})

\* the outcome of a step of a call: the shared fields, the locals, and
\* what the step wrote to the output file, if it wrote it
Stepped(self, l) == [self |-> self, l |-> l, wrote |-> FALSE, data |-> <<>>]

\* the first step of a call: the reads of self.tones[num] the method
\* begins with (lines 283-287, 293-301, 307, 350-371, 419-421, 435, 456)
call_begin(f, self, l) ==
  LET p == ListIndex(self.tones, l.num)
      w == SliceBytes(f, self.wave)
  IN  IF l.op = "get_wave_count"
        THEN Stepped(self, Return(l, get_wave_count(self.tones)))
      ELSE IF l.op = "resample"
        THEN Stepped(self, Return(l, resample(l.wavedata, l.tone_freq)))
      ELSE IF p = 0 THEN Stepped(self, Raise(l, "IndexError"))
      ELSE IF l.op = "get_wave_start"
        THEN Stepped(self, Return(l, get_wave_start(self.tones[p])))
      ELSE IF l.op = "get_wave_end"
        THEN Stepped(self, [l EXCEPT !.pc = "length",
                                     !.val = get_wave_start(self.tones[p])])
      ELSE IF l.op = "convert_wave"
        THEN LET c == convert_setup(w, self.tones[p], l.ulp)
             IN  Stepped(self, [l EXCEPT !.pc = "loop", !.buf = w, !.c = c,
                                         !.st = c.st])
      ELSE Stepped(self, [l EXCEPT !.pc = "convert",
                                   !.freq = self.tones[p].values["FREQUENCY"]])

\* get_wave_end, lines 308-310
call_length(f, self, l) ==
  LET p == ListIndex(self.tones, l.num)
  IN  Stepped(self, Return(l, l.val + SEGMENT_SIZE * Tone_length(self.tones[p])))

\* export_wav and get_wav, lines 436 and 457: the entry of convert_wave
call_convert(f, self, l) ==
  LET p == ListIndex(self.tones, l.num)
      w == SliceBytes(f, self.wave)
      c == convert_setup(w, self.tones[p], l.ulp)
  IN  Stepped(self, [l EXCEPT !.pc = "loop", !.buf = w, !.c = c, !.st = c.st])

\* the loop step as it would be if the chunk were popped from a cursor
\* kept on the Disk
call_loop_shared_cursor(f, self, l) ==
  IF convert_running(l.c, l.st)
    THEN [self |-> [self EXCEPT !.wave = skip(self.wave, 3)],
          l |-> [l EXCEPT !.st = convert_iter(l.buf, l.c, l.st)],
          wrote |-> FALSE, data |-> <<>>]
  ELSE IF l.op = "convert_wave" THEN Stepped(self, Return(l, l.st.result))
  ELSE Stepped(self, [l EXCEPT !.pc = "finish"])

\* lines 372-407: the loop test, and one iteration of the loop on the
\* call's own view or the way out of it
call_loop(f, self, l) ==
  IF convert_running(l.c, l.st)
    THEN Stepped(self, [l EXCEPT !.st = convert_iter(l.buf, l.c, l.st)])
  ELSE IF l.op = "convert_wave" THEN Stepped(self, Return(l, l.st.result))
  ELSE Stepped(self, [l EXCEPT !.pc = "finish"])

\* lines 436-442 and 457-467: resample and the WAV container
call_finish(f, self, l) ==
  LET raw == resample(l.st.result, l.freq)
      buf == wave_write(CHANNELS_OUT, WIDTH_OUT, FRAMERATE_OUT, raw)
  IN  IF l.op = "get_wav" THEN Stepped(self, Return(l, buf))
      ELSE [self |-> self, l |-> Return(l, None), wrote |-> TRUE, data |-> buf]

\* one step of the call with the locals l
call_step(f, self, l) ==
  IF l.pc = "call" THEN call_begin(f, self, l)
  ELSE IF l.pc = "length" THEN call_length(f, self, l)
  ELSE IF l.pc = "convert" THEN call_convert(f, self, l)
  ELSE IF l.pc = "loop" THEN call_loop(f, self, l)
  ELSE call_finish(f, self, l)

(***************************************************************************)
(* State.                                                                  *)
(***************************************************************************)
VARIABLES
  file,      \* the image file on disk: a bytes object
  pc,        \* the position of Disk.__init__: start, open, check, sys, wave,
             \* function, midi, patches, tones, done, raised
  err,       \* the exception that escaped Disk.__init__, or "none"
  img,       \* the full image read from the file, NoImg before the read
  format,    \* self.format, by class name: none, S550, S50
  sys,       \* self.sys, as a view on the file
  os_ver,    \* self.os_ver: [set, text]
  wave,      \* self.wave, as a view on the file
  function,  \* self.function
  midi,      \* self.midi
  patches,   \* self.patches
  tones,     \* self.tones
  i,         \* the loop variable of the Patches and Tones loops
  log,       \* what tee() has reported
  calls,     \* how often getsize, the full read and formats.check have run
  ret,       \* the outcome of the last accessor call on the Disk
  chk,       \* formats.check on its own: [img, ret]
  rp,        \* DiskBytes.read_params on its own: [img, fmt, k, st, at]
  pcm,       \* the chunk unpacking on its own: [a, b, rawbytes, out]
  cur,       \* a DiskBytes cursor on its own: [img, win, view, hist]
  fs,        \* the file export_wav has written: [written, num, ulp, data]
  th         \* the calls running on the Disk, one per thread: the
             \* arguments, the position and the locals of each

diskvars == <<file, pc, err, img, format, sys, os_ver, wave, function, midi,
              patches, tones, i, log, calls, ret, fs, th>>
vars == <<file, pc, err, img, format, sys, os_ver, wave, function, midi,
          patches, tones, i, log, calls, ret, chk, rp, pcm, cur, fs, th>>

Idle == [idle |-> TRUE]
NoImg == [size |-> -1, fill |-> 0, ov |-> EmptyDict]
NoView == [lo |-> -1, hi |-> -1]
NoBlock == [addr |-> -1, values |-> EmptyDict, number |-> -1, reads |-> 0]
NoRet == [op |-> "none", num |-> 0, val |-> 0, err |-> "none"]
NoFile == [written |-> FALSE, num |-> 0, ulp |-> FALSE, data |-> <<>>]

(***************************************************************************)
(* The image files Disk construction is run on.                            *)
(***************************************************************************)
Merge(f, g) ==
  [p \in (DOMAIN f) \cup (DOMAIN g) |-> IF p \in DOMAIN g THEN g[p] ELSE f[p]]

\* a signature at bytes 4..7
SigOv(sig) == [p \in 4..7 |-> sig[p - 3]]

Str_S551 == <<83, 53, 53, 49>>
Str_NonAscii == <<83, 200, 53, 48>>
Str_Zero == <<0, 0, 0, 0>>

GoodSigs == {Str_S550, Str_S330, Str_W30, Str_S50, Str_S51}
Sigs == GoodSigs \cup {Str_S551, Str_NonAscii, Str_Zero}

FileSizes ==
  {0, 6, 8, 64512, 68700, 69184, WAVE_SEEK, WAVE_SEEK + 1, IMAGE_SIZE - 1,
   IMAGE_SIZE, IMAGE_SIZE + 1, MAX_FILE_SIZE, MAX_FILE_SIZE + 1}

\* files of every size and signature, zero-filled or filled with a
\* non-ASCII byte
SizedFiles ==
  {[size |-> n, fill |-> f, ov |-> SigOv(sig)] :
     n \in FileSizes, f \in {0, 200}, sig \in Sigs}

\* byte offsets of the wave-addressing fields inside a tone block
\* (the same in S550.tone_fmt and S50.tone_fmt)
ToneFieldOv(cls, t, freq, bank, top, length) ==
  LET base == Descriptor(cls).TONES_OFFSET + t * Descriptor(cls).TONE_SIZE
  IN  (base + 11 :> freq) @@ (base + 13 :> bank) @@ (base + 14 :> top)
        @@ (base + 15 :> length)

\* full-size images with one tone's bank, segment top and segment length set
ToneFiles ==
  {[size |-> IMAGE_SIZE, fill |-> 0,
    ov |-> Merge(SigOv(sig), ToneFieldOv("S550", t, fr, bank, top, length))] :
     sig \in {Str_S550, Str_S50}, t \in {0, 31}, fr \in {0, 1},
     bank \in {0, 1, 2, 255}, top \in {0, 17, 255}, length \in {0, 1, 18}}

\* full-size images with one odd byte: in the OS version text, in a patch
\* name, in a tone name, in a tone's FREQUENCY
OddByteFiles ==
  {[size |-> IMAGE_SIZE, fill |-> f, ov |-> Merge(SigOv(sig), (p :> v))] :
     sig \in {Str_S550, Str_S50}, f \in {0, 32},
     p \in {40, 64512 + 2 * 512 + 3, 69120 + 5 * 128, 69120 + 7 * 128 + 11},
     v \in {65, 200}}

\* texts at byte 32 of the System region: words with runs of blanks, tabs
\* and separators around and between them, blanks only, a non-ASCII byte
\* in the last byte of the version window, and the end marker behind it
VersionTexts ==
  {<<32, 65, 32, 32, 66, 9, 28, 67, 32>>,
   [k \in 1..31 |-> 32],
   [k \in 1..31 |-> IF k = 31 THEN 254 ELSE 86],
   [k \in 1..32 |-> IF k = 32 THEN 254 ELSE IF k % 4 = 0 THEN 32 ELSE 86]}

\* full-size images with a version text
VersionFiles ==
  {[size |-> IMAGE_SIZE, fill |-> 0,
    ov |-> Merge(SigOv(sig), [p \in 32..(31 + Len(t)) |-> t[p - 31]])] :
     sig \in {Str_S550, Str_S50}, t \in VersionTexts}

\* full-size images whose Function and MIDI regions hold a different byte
\* at every position (1..251, repeating)
RegionMark(p) == ((p - 68608) % 251) + 1

RegionFiles ==
  {[size |-> IMAGE_SIZE, fill |-> 0,
    ov |-> Merge(SigOv(sig), [p \in 68608..69119 |-> RegionMark(p)])] :
     sig \in {Str_S550, Str_S50}}

Files ==
  SizedFiles \cup ToneFiles \cup OddByteFiles \cup VersionFiles \cup RegionFiles

(***************************************************************************)
(* Disk.__init__(filename), step by step.                                  *)
(***************************************************************************)
DiskIdle ==
  /\ file = NoImg /\ pc = "idle" /\ err = "none" /\ img = NoImg
  /\ format = "none" /\ sys = NoView /\ os_ver = [set |-> FALSE, text |-> <<>>]
  /\ wave = NoView /\ function = NoBlock /\ midi = NoBlock
  /\ patches = <<>> /\ tones = <<>> /\ i = 0 /\ log = <<>>
  /\ calls = [getsize |-> 0, read |-> 0, check |-> 0]
  /\ ret = NoRet /\ fs = NoFile /\ th = NoCalls

\* lines 208-210: the fields set before any check, for a file of the set F
DiskInitOn(F) ==
  /\ file \in F
  /\ pc = "start" /\ err = "none" /\ img = NoImg
  /\ format = "none" /\ sys = NoView /\ os_ver = [set |-> FALSE, text |-> <<>>]
  /\ wave = NoView /\ function = NoBlock /\ midi = NoBlock
  /\ patches = <<>> /\ tones = <<>> /\ i = 0 /\ log = <<>>
  /\ calls = [getsize |-> 0, read |-> 0, check |-> 0]
  /\ ret = NoRet /\ fs = NoFile /\ th = NoCalls

DiskInit == DiskInitOn(Files)

\* the file-size gate as it would be with >= for >
SizeGateRejects_Geq(size) == size >= MAX_FILE_SIZE

\* line 213: os.path.getsize(filename) > MAX_FILE_SIZE
SizeGateRejects(size) == size > MAX_FILE_SIZE

\* lines 212-214
SizeGate ==
  /\ pc = "start"
  /\ calls' = [calls EXCEPT !.getsize = @ + 1]
  /\ IF SizeGateRejects(file.size)
       THEN pc' = "raised" /\ err' = "FileSizeError"
       ELSE pc' = "open" /\ err' = err
  /\ UNCHANGED <<file, img, format, sys, os_ver, wave, function, midi, patches,
                 tones, i, log, ret, chk, rp, pcm, cur, fs, th>>

\* lines 216-219
ReadImage ==
  /\ pc = "open"
  /\ img' = file
  /\ calls' = [calls EXCEPT !.read = @ + 1]
  /\ pc' = "check"
  /\ UNCHANGED <<file, err, format, sys, os_ver, wave, function, midi, patches,
                 tones, i, log, ret, chk, rp, pcm, cur, fs, th>>

\* line 222
CheckFormat ==
  /\ pc = "check"
  /\ calls' = [calls EXCEPT !.check = @ + 1]
  /\ LET r == check(img)
     IN  IF r.err # "none"
           THEN pc' = "raised" /\ err' = r.err /\ format' = format
           ELSE pc' = "sys" /\ err' = err /\ format' = r.cls
  /\ UNCHANGED <<file, img, sys, os_ver, wave, function, midi, patches, tones,
                 i, log, ret, chk, rp, pcm, cur, fs, th>>

\* lines 224-240: the size message, the system data, the OS version text
ReadSystem ==
  /\ pc = "sys"
  /\ LET sysview == DiskBytes(file, 0, SYS_READ)
         raw == Bytes(file, SliceLo(file, 32),
                      Max(SliceLo(file, 32), Min(63, sysview.hi)))
         sizemsg == IF img.size # IMAGE_SIZE THEN <<"Bad disk image size">> ELSE <<>>
     IN  /\ sys' = sysview
         /\ IF IsAscii(raw)
              THEN /\ os_ver' = [set |-> TRUE, text |-> join_split(raw)]
                   /\ log' = log \o sizemsg \o <<"Read system data", "System version">>
              ELSE /\ os_ver' = os_ver
                   /\ log' = log \o sizemsg
                               \o <<"Read system data", "Unable to decode version string">>
  /\ pc' = "wave"
  /\ UNCHANGED <<file, err, img, format, wave, function, midi, patches, tones,
                 i, calls, ret, chk, rp, pcm, cur, fs, th>>

\* lines 242-245
ReadWave ==
  /\ pc = "wave"
  /\ wave' = DiskBytes(file, WAVE_SEEK, WAVE_SEEK + WAVE_READ)
  /\ log' = Append(log, "Read wave data")
  /\ pc' = "function"
  /\ UNCHANGED <<file, err, img, format, sys, os_ver, function, midi, patches,
                 tones, i, calls, ret, chk, rp, pcm, cur, fs, th>>

\* lines 249-251
ReadFunction ==
  /\ pc = "function"
  /\ LET r == ParamBlock_read(ParamBlock(FUNCTION_ADDR), img,
                              Descriptor(format).func_fmt)
     IN  IF r.err # "none"
           THEN pc' = "raised" /\ err' = r.err /\ function' = r.obj /\ log' = log
           ELSE /\ pc' = "midi" /\ err' = err /\ function' = r.obj
                /\ log' = Append(log, "Read function parameters")
  /\ UNCHANGED <<file, img, format, sys, os_ver, wave, midi, patches, tones, i,
                 calls, ret, chk, rp, pcm, cur, fs, th>>

\* lines 255-257 and the entry of the Patches loop
ReadMidi ==
  /\ pc = "midi"
  /\ LET r == ParamBlock_read(ParamBlock(MIDI_ADDR), img,
                              Descriptor(format).midi_fmt)
     IN  IF r.err # "none"
           THEN pc' = "raised" /\ err' = r.err /\ midi' = r.obj /\ log' = log
           ELSE /\ pc' = "patches" /\ err' = err /\ midi' = r.obj
                /\ log' = Append(log, "Read MIDI parameters")
  /\ i' = 0
  /\ UNCHANGED <<file, img, format, sys, os_ver, wave, function, patches, tones,
                 calls, ret, chk, rp, pcm, cur, fs, th>>

\* lines 260-265: one iteration of the Patches loop; after the last one the
\* message and the entry of the Tones loop
ReadPatch ==
  /\ pc = "patches"
  /\ i < Descriptor(format).PATCH_COUNT
  /\ LET F == Descriptor(format)
         r == Patch_read(ParamBlock(F.PATCHES_OFFSET), img, F.patch_fmt, i,
                         F.PATCH_SIZE)
     IN  IF r.err # "none"
           THEN /\ pc' = "raised" /\ err' = r.err
                /\ UNCHANGED <<patches, i, log>>
           ELSE /\ patches' = Append(patches, r.obj)
                /\ err' = err
                /\ IF i + 1 < F.PATCH_COUNT
                     THEN pc' = pc /\ i' = i + 1 /\ log' = log
                     ELSE pc' = "tones" /\ i' = 0 /\ log' = Append(log, "Read patches")
  /\ UNCHANGED <<file, img, format, sys, os_ver, wave, function, midi, tones,
                 calls, ret, chk, rp, pcm, cur, fs, th>>

\* lines 268-274: one iteration of the Tones loop; after the last one the
\* closing messages
ReadTone ==
  /\ pc = "tones"
  /\ i < Descriptor(format).TONE_COUNT
  /\ LET F == Descriptor(format)
         r == Tone_read(ParamBlock(F.TONES_OFFSET), img, F.tone_fmt, i, F.TONE_SIZE)
     IN  IF r.err # "none"
           THEN /\ pc' = "raised" /\ err' = r.err
                /\ UNCHANGED <<tones, i, log>>
           ELSE /\ tones' = Append(tones, r.obj)
                /\ err' = err
                /\ IF i + 1 < F.TONE_COUNT
                     THEN pc' = pc /\ i' = i + 1 /\ log' = log
                     ELSE /\ pc' = "done" /\ i' = i
                          /\ log' = log \o <<"Read tones", "Done reading disk">>
  /\ UNCHANGED <<file, img, format, sys, os_ver, wave, function, midi, patches,
                 calls, ret, chk, rp, pcm, cur, fs, th>>

(***************************************************************************)
(* Accessors of a constructed Disk.                                        *)
(***************************************************************************)
\* the tone indexes the accessors are called with: the first and last
\* tones, from either end of the list, and the nearest indexes outside it
AccessNums == {-33, -32, -1, 0, 1, 31, 32}

\* lines 289-301
GetWaveStart(num) ==
  /\ pc = "done"
  /\ LET p == ListIndex(tones, num)
     IN  ret' = IF p = 0
                  THEN [op |-> "get_wave_start", num |-> num, val |-> 0,
                        err |-> "IndexError"]
                  ELSE [op |-> "get_wave_start", num |-> num,
                        val |-> get_wave_start(tones[p]), err |-> "none"]
  /\ UNCHANGED <<file, pc, err, img, format, sys, os_ver, wave, function, midi,
                 patches, tones, i, log, calls, chk, rp, pcm, cur, fs, th>>

\* lines 303-310
GetWaveEnd(num) ==
  /\ pc = "done"
  /\ LET p == ListIndex(tones, num)
     IN  ret' = IF p = 0
                  THEN [op |-> "get_wave_end", num |-> num, val |-> 0,
                        err |-> "IndexError"]
                  ELSE [op |-> "get_wave_end", num |-> num,
                        val |-> get_wave_end(tones[p]), err |-> "none"]
  /\ UNCHANGED <<file, pc, err, img, format, sys, os_ver, wave, function, midi,
                 patches, tones, i, log, calls, chk, rp, pcm, cur, fs, th>>

(***************************************************************************)
(* Disk.convert_wave on a constructed Disk, on images with wave data.      *)
(***************************************************************************)
\* a 3-byte big-endian field at base
Int3Ov(base, v) ==
  (base :> v \div 65536) @@ (base + 1 :> (v \div 256) % 256)
    @@ (base + 2 :> v % 256)

\* START POINT, END POINT and LOOP POINT of tone t (bytes 16-24 of the tone
\* block in both tone_fmt layouts)
TonePointsOv(cls, t, start, end, loop) ==
  LET base == Descriptor(cls).TONES_OFFSET + t * Descriptor(cls).TONE_SIZE
  IN  Int3Ov(base + 16, start) @@ Int3Ov(base + 19, end)
        @@ Int3Ov(base + 22, loop)

\* wave bytes: four chunks that differ in every nibble
WavePattern == <<18, 52, 86, 171, 205, 239, 255, 0, 129, 1, 35, 69>>

\* the pattern at byte at of the wave data, as far as it lies below limit
WaveDataOv(at, limit) ==
  [p \in {q \in (WAVE_SEEK + at)..(WAVE_SEEK + at + Len(WavePattern) - 1) :
            q < limit} |-> WavePattern[p - WAVE_SEEK - at + 1]]

\* how many wave bytes the short images hold
ShortWaveLens == {0, 1, 2, 3, 4, 6, 8, 12}
\* the END POINT values of the short images
ShortEndPoints == 0..7

\* an image cut off inside the first wave segment: tone 0 spans one
\* segment of bank A, of which only n bytes are there; END POINT is k and
\* the FREQUENCY byte fr
ShortWaveFile(n, k, fr) ==
  [size |-> WAVE_SEEK + n, fill |-> 0,
   ov |-> Merge(Merge(SigOv(Str_S550), ToneFieldOv("S550", 0, fr, 0, 0, 1)),
                Merge(TonePointsOv("S550", 0, 0, k, 0),
                      WaveDataOv(0, WAVE_SEEK + n)))]

ShortWaveFiles ==
  {ShortWaveFile(n, k, 0) : n \in ShortWaveLens, k \in ShortEndPoints}

\* bank, segment top and segment length, then START POINT, END POINT and
\* LOOP POINT, of tone 0 in the full-size images: ranges inside the wave
\* data, a range that runs past its end, and zero-length ranges
WaveCases ==
  {<<<<0, 0, 1>>, <<3, 5, 4>>>>, <<<<1, 17, 1>>, <<0, 12288, 0>>>>,
   <<<<0, 35, 1>>, <<9, 20000, 7>>>>, <<<<2, 0, 1>>, <<0, 12289, 0>>>>,
   <<<<1, 17, 2>>, <<0, 0, 0>>>>, <<<<0, 0, 0>>, <<3, 5, 4>>>>,
   <<<<1, 5, 0>>, <<0, 0, 0>>>>, <<<<255, 255, 0>>, <<0, 7, 0>>>>}

WaveAddr(r) == (IF r[1] = 1 THEN BANK_SIZE ELSE 0) + SEGMENT_SIZE * r[2]

\* full-size images with the pattern at the start of tone 0's range and
\* in its last chunks
FullWaveFiles ==
  {[size |-> IMAGE_SIZE, fill |-> 0,
    ov |-> Merge(Merge(SigOv(Str_S550),
                       ToneFieldOv("S550", 0, 1, c[1][1], c[1][2], c[1][3])),
                 Merge(TonePointsOv("S550", 0, c[2][1], c[2][2], c[2][3]),
                       Merge(WaveDataOv(WaveAddr(c[1]), IMAGE_SIZE),
                             WaveDataOv(WaveAddr(c[1]) + SEGMENT_SIZE - 6,
                                        IMAGE_SIZE))))] :
     c \in WaveCases}

WaveFiles == ShortWaveFiles \cup FullWaveFiles

\* the tone indexes convert_wave is called with
WaveNums == {-33, -1, 0, 32}

\* lines 338-407: the buffer returned, what tee reported, and the byte
\* range (tone_addr, end_addr) of lines 358-364 the view was made on
ConvertWave(num, use_loop_points) ==
  /\ pc = "done"
  /\ LET p == ListIndex(tones, num)
     IN  ret' = IF p = 0
                  THEN [op |-> "convert_wave", num |-> num,
                        ulp |-> use_loop_points, val |-> <<>>,
                        err |-> "IndexError", log |-> <<>>,
                        range |-> <<0, 0>>]
                  ELSE LET w == SliceBytes(file, wave)
                           c == convert_setup(w, tones[p], use_loop_points)
                           st == convert_wave(w, tones[p], use_loop_points)
                       IN  [op |-> "convert_wave", num |-> num,
                            ulp |-> use_loop_points, val |-> st.result,
                            err |-> "none", log |-> st.log,
                            range |-> <<c.st.tone_addr, c.end_addr>>]
  /\ UNCHANGED <<file, pc, err, img, format, sys, os_ver, wave, function, midi,
                 patches, tones, i, log, calls, chk, rp, pcm, cur, fs, th>>

WaveInit == DiskInitOn(WaveFiles) /\ chk = Idle /\ rp = Idle /\ pcm = Idle
              /\ cur = Idle

WaveNext ==
  \/ SizeGate
  \/ ReadImage
  \/ CheckFormat
  \/ ReadSystem
  \/ ReadWave
  \/ ReadFunction
  \/ ReadMidi
  \/ ReadPatch
  \/ ReadTone
  \/ \E num \in WaveNums : GetWaveStart(num)
  \/ \E num \in WaveNums : GetWaveEnd(num)
  \/ \E num \in WaveNums, ulp \in BOOLEAN : ConvertWave(num, ulp)

(***************************************************************************)
(* Patch.tone_list and ParamBlock.lookup on the blocks of a Disk.          *)
(***************************************************************************)
\* the byte offset of field k of a layout inside its block
RECURSIVE LayoutOffset(_, _)
LayoutOffset(fmt, k) ==
  IF k = 1 THEN 0 ELSE LayoutOffset(fmt, k - 1) + fmt[k - 1].size

\* the position of the field called name in a layout
FieldAt(fmt, name) == CHOOSE k \in 1..Len(fmt) : fmt[k].name = name

\* bytes of the key tables of patch p: the first entry of TONE TO KEY 1,
\* the first and the last entry of TONE TO KEY 2
KeyTableOv(cls, p, a, b, c) ==
  LET F == Descriptor(cls)
      base == F.PATCHES_OFFSET + p * F.PATCH_SIZE
      k1 == FieldAt(F.patch_fmt, "TONE TO KEY 1")
      k2 == FieldAt(F.patch_fmt, "TONE TO KEY 2")
  IN  (base + LayoutOffset(F.patch_fmt, k1) :> a)
        @@ (base + LayoutOffset(F.patch_fmt, k2) :> b)
        @@ (base + LayoutOffset(F.patch_fmt, k2) + F.patch_fmt[k2].size - 1 :> c)

\* full-size images with key table entries set in patch 0 or patch 7
PatchFiles ==
  {[size |-> IMAGE_SIZE, fill |-> f,
    ov |-> Merge(SigOv(sc[1]), KeyTableOv(sc[2], p, a, 128, c))] :
     sc \in {<<Str_S550, "S550">>, <<Str_S50, "S50">>}, f \in {0, 32},
     p \in {0, 7}, a \in {0, 5, 200}, c \in {0, 255}}

\* the block objects the calls are made on: the first and the eighth
\* patch and tone, the Function block and the MIDI block
BlockPicks ==
  {<<"function", 1>>, <<"midi", 1>>, <<"patch", 1>>, <<"patch", 8>>,
   <<"tone", 1>>, <<"tone", 8>>}

\* keys held by some blocks and by none
LookupKeys == {"NAME", "FREQUENCY", "MASTER TUNE", "dummy1", "NO SUCH KEY"}

BlockOf(pick) ==
  CASE pick[1] = "function" -> function
    [] pick[1] = "midi" -> midi
    [] pick[1] = "patch" -> patches[pick[2]]
    [] pick[1] = "tone" -> tones[pick[2]]

\* lines 128-133, on self.patches[p - 1]
ToneList(p) ==
  /\ pc = "done"
  /\ p \in 1..Len(patches)
  /\ ret' = [op |-> "tone_list", num |-> p - 1, val |-> tone_list(patches[p]),
             err |-> "none"]
  /\ UNCHANGED <<file, pc, err, img, format, sys, os_ver, wave, function, midi,
                 patches, tones, i, log, calls, chk, rp, pcm, cur, fs, th>>

\* lines 83-87, on one of the blocks of the Disk
Lookup(pick, key) ==
  /\ pc = "done"
  /\ LET r == ParamBlock_lookup(BlockOf(pick), key)
     IN  /\ ret' = [op |-> "lookup", kind |-> pick[1], num |-> pick[2] - 1,
                    key |-> key, val |-> r.val, err |-> "none"]
         /\ function' = IF pick[1] = "function" THEN r.obj ELSE function
         /\ midi' = IF pick[1] = "midi" THEN r.obj ELSE midi
         /\ patches' = IF pick[1] = "patch"
                         THEN [patches EXCEPT ![pick[2]] = r.obj] ELSE patches
         /\ tones' = IF pick[1] = "tone"
                       THEN [tones EXCEPT ![pick[2]] = r.obj] ELSE tones
  /\ UNCHANGED <<file, pc, err, img, format, sys, os_ver, wave, i, log, calls,
                 chk, rp, pcm, cur, fs, th>>

BlocksInit == DiskInitOn(PatchFiles) /\ chk = Idle /\ rp = Idle /\ pcm = Idle
                /\ cur = Idle

BlocksNext ==
  \/ SizeGate
  \/ ReadImage
  \/ CheckFormat
  \/ ReadSystem
  \/ ReadWave
  \/ ReadFunction
  \/ ReadMidi
  \/ ReadPatch
  \/ ReadTone
  \/ \E p \in {1, 8} : ToneList(p)
  \/ \E pick \in BlockPicks, key \in LookupKeys : Lookup(pick, key)

(***************************************************************************)
(* Disk.export_wav and Disk.get_wav on a constructed Disk.                 *)
(***************************************************************************)
\* images with two complete chunks or none, for both tone rates
WavFiles ==
  {ShortWaveFile(n, k, fr) : n \in {0, 8}, k \in {0, 3, 7}, fr \in {0, 1}}

\* lines 423-442: the tone is looked up before the file is opened
ExportWav(num, use_loop_points) ==
  /\ pc = "done"
  /\ LET p == ListIndex(tones, num)
     IN  IF p = 0
           THEN /\ ret' = [op |-> "export_wav", num |-> num,
                           ulp |-> use_loop_points, val |-> None,
                           err |-> "IndexError"]
                /\ fs' = fs
           ELSE /\ ret' = [op |-> "export_wav", num |-> num,
                           ulp |-> use_loop_points, val |-> None,
                           err |-> "none"]
                /\ fs' = [written |-> TRUE, num |-> num,
                          ulp |-> use_loop_points,
                          data |-> export_wav(SliceBytes(file, wave), tones[p],
                                              use_loop_points)]
  /\ UNCHANGED <<file, pc, err, img, format, sys, os_ver, wave, function, midi,
                 patches, tones, i, log, calls, chk, rp, pcm, cur, th>>

\* lines 444-467
GetWav(num, use_loop_points) ==
  /\ pc = "done"
  /\ LET p == ListIndex(tones, num)
     IN  ret' = IF p = 0
                  THEN [op |-> "get_wav", num |-> num,
                        ulp |-> use_loop_points, val |-> None,
                        err |-> "IndexError"]
                  ELSE [op |-> "get_wav", num |-> num,
                        ulp |-> use_loop_points,
                        val |-> get_wav(SliceBytes(file, wave), tones[p],
                                        use_loop_points),
                        err |-> "none"]
  /\ UNCHANGED <<file, pc, err, img, format, sys, os_ver, wave, function, midi,
                 patches, tones, i, log, calls, chk, rp, pcm, cur, fs, th>>

WavInit == DiskInitOn(WavFiles) /\ chk = Idle /\ rp = Idle /\ pcm = Idle
             /\ cur = Idle

WavNext ==
  \/ SizeGate
  \/ ReadImage
  \/ CheckFormat
  \/ ReadSystem
  \/ ReadWave
  \/ ReadFunction
  \/ ReadMidi
  \/ ReadPatch
  \/ ReadTone
  \/ \E num \in WaveNums, ulp \in BOOLEAN : ExportWav(num, ulp)
  \/ \E num \in WaveNums, ulp \in BOOLEAN : GetWav(num, ulp)

(***************************************************************************)
(* Calls on a constructed Disk from two threads, interleaved step by step. *)
(***************************************************************************)
\* images with eight and with six bytes of wave data
ThreadFiles == {ShortWaveFile(8, 3, 1), ShortWaveFile(6, 0, 0)}

\* the tone indexes the threads call with: a tone and an index outside
ThreadNums == {0, 32}

\* the calls a thread makes: the method and its arguments
ThreadCalls ==
  {[op |-> "get_wave_count", num |-> 0, ulp |-> FALSE, wavedata |-> <<>>,
    tone_freq |-> 0]}
  \cup {[op |-> o, num |-> n, ulp |-> FALSE, wavedata |-> <<>>, tone_freq |-> 0] :
          o \in {"get_wave_start", "get_wave_end"}, n \in ThreadNums}
  \cup {[op |-> o, num |-> n, ulp |-> u, wavedata |-> <<>>, tone_freq |-> 0] :
          o \in {"convert_wave", "get_wav", "export_wav"}, n \in ThreadNums,
          u \in BOOLEAN}
  \cup {[op |-> "resample", num |-> 0, ulp |-> FALSE, wavedata |-> d,
         tone_freq |-> 15000] : d \in {<<>>, <<48, 18>>}}

\* thread t enters a method
ThreadCall(t, a) ==
  /\ pc = "done"
  /\ th[t].pc \in {"idle", "ret"}
  /\ th' = [th EXCEPT ![t] = [NoCall EXCEPT !.op = a.op, !.num = a.num,
                                            !.ulp = a.ulp,
                                            !.wavedata = a.wavedata,
                                            !.tone_freq = a.tone_freq,
                                            !.pc = "call"]]
  /\ UNCHANGED <<file, pc, err, img, format, sys, os_ver, wave, function, midi,
                 patches, tones, i, log, calls, ret, chk, rp, pcm, cur, fs>>

\* thread t runs the next step of its call
ThreadStep(t) ==
  /\ pc = "done"
  /\ th[t].pc \notin {"idle", "ret"}
  /\ LET r == call_step(file, [wave |-> wave, tones |-> tones], th[t])
     IN  /\ th' = [th EXCEPT ![t] = r.l]
         /\ wave' = r.self.wave
         /\ tones' = r.self.tones
         /\ fs' = IF r.wrote
                    THEN [written |-> TRUE, num |-> th[t].num,
                          ulp |-> th[t].ulp, data |-> r.data]
                    ELSE fs
  /\ UNCHANGED <<file, pc, err, img, format, sys, os_ver, function, midi,
                 patches, i, log, calls, ret, chk, rp, pcm, cur>>

ThreadsInit == DiskInitOn(ThreadFiles) /\ chk = Idle /\ rp = Idle /\ pcm = Idle
                 /\ cur = Idle

ThreadsNext ==
  \/ SizeGate
  \/ ReadImage
  \/ CheckFormat
  \/ ReadSystem
  \/ ReadWave
  \/ ReadFunction
  \/ ReadMidi
  \/ ReadPatch
  \/ ReadTone
  \/ \E t \in Threads, a \in ThreadCalls : ThreadCall(t, a)
  \/ \E t \in Threads : ThreadStep(t)

(***************************************************************************)
(* Disk construction and conversion of tone 0 on full-size images that are *)
(* zero but for tone 0 and one chunk of its wave data.                     *)
(***************************************************************************)
\* the non-zero chunk, and the byte of the wave data it begins at
ScenarioChunks == {<<18, 52, 86>>, <<255, 240, 15>>}
ScenarioAt == {0, 300, SEGMENT_SIZE - 3}

\* signature S550, tone 0 in bank A with segment top 0, segment length 1
\* and FREQUENCY byte 0, the chunk ch at byte at of the wave data
ScenarioFile(at, ch) ==
  [size |-> IMAGE_SIZE, fill |-> 0,
   ov |-> Merge(Merge(SigOv(Str_S550), ToneFieldOv("S550", 0, 0, 0, 0, 1)),
                [p \in (WAVE_SEEK + at)..(WAVE_SEEK + at + 2)
                   |-> ch[p - WAVE_SEEK - at + 1]])]

ScenarioFiles == {ScenarioFile(at, ch) : at \in ScenarioAt, ch \in ScenarioChunks}

ScenarioInit == DiskInitOn(ScenarioFiles) /\ chk = Idle /\ rp = Idle
                  /\ pcm = Idle /\ cur = Idle

ScenarioNext ==
  \/ SizeGate
  \/ ReadImage
  \/ CheckFormat
  \/ ReadSystem
  \/ ReadWave
  \/ ReadFunction
  \/ ReadMidi
  \/ ReadPatch
  \/ ReadTone
  \/ \E ulp \in BOOLEAN : ConvertWave(0, ulp)
  \/ \E ulp \in BOOLEAN : GetWav(0, ulp)

(***************************************************************************)
(* Disk construction and the wave ranges of tones with every bank, segment *)
(* top and segment length.                                                 *)
(***************************************************************************)
\* bank, segment top and segment length beyond banks A and B, 18 segment
\* tops and 18 segments
RangeExtras ==
  <<<<2, 0, 0>>, <<2, 0, 18>>, <<2, 0, 255>>, <<2, 17, 0>>, <<2, 17, 18>>,
    <<2, 17, 255>>, <<2, 255, 0>>, <<2, 255, 18>>, <<2, 255, 255>>,
    <<255, 0, 0>>, <<255, 0, 18>>, <<255, 0, 255>>, <<255, 17, 0>>,
    <<255, 17, 18>>, <<255, 17, 255>>, <<255, 255, 0>>, <<255, 255, 18>>,
    <<255, 255, 255>>, <<1, 255, 255>>, <<0, 255, 1>>>>

\* the k-th combination, from 0: first every bank in {0, 1} with every
\* segment top 0..17 and segment length 0..18, then the extras
RangeCombo(k) ==
  IF k < 684 THEN <<k \div 342, (k % 342) \div 19, k % 19>>
  ELSE RangeExtras[k - 683]

\* the image numbers: 32 combinations per image, one per tone
RangeGroups == 0..21

\* image g of size n: tone t has combination 32 * g + t in its WAVE BANK,
\* WAVE SEGMENT TOP and WAVE SEGMENT LENGTH bytes (bytes 13, 14, 15)
RangeFile(g, n) ==
  [size |-> n, fill |-> 0,
   ov |-> Merge(SigOv(Str_S550),
                [p \in {S550.TONES_OFFSET + S550.TONE_SIZE * t + o :
                          t \in 0..31, o \in {13, 14, 15}}
                   |-> RangeCombo(32 * g + (p - S550.TONES_OFFSET) \div S550.TONE_SIZE)
                         [((p - S550.TONES_OFFSET) % S550.TONE_SIZE) - 12]])]

\* full-size images, and images cut off after two chunks of wave data
RangeFiles == {RangeFile(g, n) : g \in RangeGroups, n \in {IMAGE_SIZE, WAVE_SEEK + 6}}

RangeNums == 0..31

\* the bytes of wave data inside the range of a tone
RangeData(tone) ==
  LET size == wave.hi - wave.lo
  IN  Max(0, Min(get_wave_end(tone), size) - Min(get_wave_start(tone), size))

\* convert_wave as the first call on the Disk, on the tones with at most
\* one segment of wave data in their range
RangeConvert(num) ==
  /\ pc = "done"
  /\ ret = NoRet
  /\ RangeData(tones[num + 1]) <= SEGMENT_SIZE
  /\ ConvertWave(num, FALSE)

RangeInit == DiskInitOn(RangeFiles) /\ chk = Idle /\ rp = Idle /\ pcm = Idle
               /\ cur = Idle

RangeNext ==
  \/ SizeGate
  \/ ReadImage
  \/ CheckFormat
  \/ ReadSystem
  \/ ReadWave
  \/ ReadFunction
  \/ ReadMidi
  \/ ReadPatch
  \/ ReadTone
  \/ \E num \in RangeNums : GetWaveStart(num)
  \/ \E num \in RangeNums : GetWaveEnd(num)
  \/ \E num \in RangeNums : RangeConvert(num)

(***************************************************************************)
(* formats.check on its own, on short images.                              *)
(***************************************************************************)
\* the longest image formats.check is run on
CkMaxLen == 9

\* candidate bytes for positions 4, 5, 6 and 7: the characters of the known
\* signatures, a letter that occurs in none, and a non-ASCII byte
CkBytes ==
  <<{83, 87, 65, 200}, {53, 51, 45, 200}, {53, 51, 200}, {48, 49, 200}>>

CheckImages ==
  {[size |-> n, fill |-> f, ov |-> (4 :> c1) @@ (5 :> c2) @@ (6 :> c3) @@ (7 :> c4)] :
     n \in 0..CkMaxLen, f \in {0, 200},
     c1 \in CkBytes[1], c2 \in CkBytes[2], c3 \in CkBytes[3], c4 \in CkBytes[4]}

CheckInit ==
  /\ DiskIdle /\ rp = Idle /\ pcm = Idle /\ cur = Idle
  /\ \E im \in CheckImages :
       chk = [img |-> im, called |-> FALSE, ret |-> [cls |-> "none", err |-> "none"]]

CheckCall ==
  /\ ~chk.called
  /\ chk' = [chk EXCEPT !.called = TRUE, !.ret = check(chk.img)]
  /\ UNCHANGED <<diskvars, rp, pcm, cur>>

(***************************************************************************)
(* DiskBytes.read_params on its own, on small layouts and windows, one     *)
(* field of the layout per step.                                           *)
(***************************************************************************)
\* the longest layout, and the longest bytes object
MaxFields == 2
MaxWin == 3

\* the fields layouts are built from: the six type tags of formats.py and a
\* tag that is none of them
RpFields ==
  {<<"int", 1>>, <<"int", 2>>, <<"signed_int", 1>>, <<"signed_int", 2>>,
   <<"multi", 1>>, <<"multi", 2>>, <<"ascii", 1>>, <<"ascii", 2>>, <<"raw", 2>>,
   <<"dummy", 1>>, <<"bogus", 1>>, <<"int", 0>>}

RpNames == <<"P1", "P2", "P3", "P4">>

RpLayouts ==
  UNION {{[k \in 1..n |-> [name |-> RpNames[k], type |-> s[k][1], size |-> s[k][2]]] :
            s \in [1..n -> RpFields]} : n \in 0..MaxFields}

RpBytes == {1, 127, 128}

RpImages ==
  UNION {{FromSeq(s) : s \in [1..n -> RpBytes]} : n \in 0..MaxWin}

ParamsInit ==
  /\ DiskIdle /\ chk = Idle /\ pcm = Idle /\ cur = Idle
  /\ \E im \in RpImages, fmt \in RpLayouts, addr \in {0, 1} :
       rp = [img |-> im, fmt |-> fmt, k |-> 1, at |-> <<>>, addr |-> addr,
             st |-> [view |-> DiskBytes(im, addr, -1), values |-> EmptyDict,
                     err |-> "none"]]

\* one iteration of the loop of read_params (lines 174-191)
ReadParamStep ==
  /\ rp.k <= Len(rp.fmt)
  /\ rp.st.err = "none"
  /\ rp' = [rp EXCEPT !.st = read_param(rp.img, rp.st, rp.fmt[rp.k]),
                      !.k = rp.k + 1,
                      !.at = Append(rp.at, rp.st.view.lo)]
  /\ UNCHANGED <<diskvars, chk, pcm, cur>>

(***************************************************************************)
(* The chunk unpacking of Disk.convert_wave on its own: a chunk packed     *)
(* from two 12-bit values in nibble order A1 A2 A3 B3 B1 B2.               *)
(***************************************************************************)
\* the largest 12-bit value
MAX_12BIT == 4095

PcmEdge == {0, 1, 15, 16, 255, 256, 1365, 2730, 4095}

PcmPairs ==
  ((0..MAX_12BIT) \X PcmEdge) \cup (PcmEdge \X (0..MAX_12BIT))

\* the 3 bytes of (a << 12) | ((b & 0xF) << 8) | (b >> 4), big-endian
PackedChunk(a, b) == <<a \div 16, (a % 16) * 16 + (b % 16), b \div 16>>

PcmInit ==
  /\ DiskIdle /\ chk = Idle /\ rp = Idle /\ cur = Idle
  /\ \E ab \in PcmPairs :
       pcm = [a |-> ab[1], b |-> ab[2], rawbytes |-> PackedChunk(ab[1], ab[2]),
              out |-> <<>>]

\* lines 383-401: unpack the chunk and write sample A, then sample B
PcmConvert ==
  /\ pcm.out = <<>>
  /\ LET s == chunk_samples(pcm.rawbytes)
     IN  pcm' = [pcm EXCEPT !.out = pack_H(s[1]) \o pack_H(s[2])]
  /\ UNCHANGED <<diskvars, chk, rp, cur>>

(***************************************************************************)
(* A DiskBytes cursor on its own: pop and skip in any order.               *)
(***************************************************************************)
\* the most calls made on one cursor
MaxOps == 3
\* the largest n of pop(n) and skip(n)
MaxPop == 4
\* the longest bytes object a cursor is opened on
MaxCurLen == 4

\* bytes objects whose bytes all differ
CurImages == {FromSeq([k \in 1..n |-> 10 * k]) : n \in 0..MaxCurLen}

\* DiskBytes(bytesobject, offset_start, offset_end), offset_end -1 for None
CursorInit ==
  /\ DiskIdle /\ chk = Idle /\ rp = Idle /\ pcm = Idle
  /\ \E im \in CurImages, offset_start \in {0, 1}, offset_end \in {-1, 3} :
       cur = [img |-> im, win |-> DiskBytes(im, offset_start, offset_end),
              view |-> DiskBytes(im, offset_start, offset_end), hist |-> <<>>]

\* lines 153-158
CursorPop(n) ==
  /\ Len(cur.hist) < MaxOps
  /\ LET p == pop(cur.img, cur.view, n)
     IN  cur' = [cur EXCEPT !.view = p.view,
                            !.hist = Append(@, [op |-> "pop", n |-> n,
                                                result |-> p.result])]
  /\ UNCHANGED <<diskvars, chk, rp, pcm>>

\* lines 160-162
CursorSkip(n) ==
  /\ Len(cur.hist) < MaxOps
  /\ cur' = [cur EXCEPT !.view = skip(cur.view, n),
                        !.hist = Append(@, [op |-> "skip", n |-> n,
                                            result |-> <<>>])]
  /\ UNCHANGED <<diskvars, chk, rp, pcm>>

CursorNext ==
  \/ \E n \in 0..MaxPop : CursorPop(n)
  \/ \E n \in 0..MaxPop : CursorSkip(n)

(***************************************************************************)
(* Specifications.                                                         *)
(***************************************************************************)
Init == DiskInit /\ chk = Idle /\ rp = Idle /\ pcm = Idle /\ cur = Idle

Next ==
  \/ SizeGate
  \/ ReadImage
  \/ CheckFormat
  \/ ReadSystem
  \/ ReadWave
  \/ ReadFunction
  \/ ReadMidi
  \/ ReadPatch
  \/ ReadTone
  \/ \E num \in AccessNums : GetWaveStart(num)
  \/ \E num \in AccessNums : GetWaveEnd(num)

\* Disk construction and the accessors
Spec == Init /\ [][Next]_vars

\* formats.check alone
SpecCheck == CheckInit /\ [][CheckCall]_vars

\* read_params alone
SpecParams == ParamsInit /\ [][ReadParamStep]_vars

\* the chunk unpacking alone
SpecPcm == PcmInit /\ [][PcmConvert]_vars

\* Disk construction on images with key tables, Patch.tone_list and
\* ParamBlock.lookup
SpecBlocks == BlocksInit /\ [][BlocksNext]_vars

\* Disk construction, export_wav and get_wav
SpecWav == WavInit /\ [][WavNext]_vars

\* a DiskBytes cursor alone
SpecCursor == CursorInit /\ [][CursorNext]_vars

\* Disk construction on images with wave data, the wave range accessors
\* and convert_wave
SpecWave == WaveInit /\ [][WaveNext]_vars

\* Disk construction and the wave ranges of tones of every bank, segment
\* top and segment length
SpecRange == RangeInit /\ [][RangeNext]_vars

\* Disk construction and the conversion of tone 0 on the scenario images
SpecScenario == ScenarioInit /\ [][ScenarioNext]_vars

\* Disk construction, then the accessors and the Sample Codec called from
\* two threads
SpecThreads == ThreadsInit /\ [][ThreadsNext]_vars

(***************************************************************************)
(* Properties.                                                             *)
(***************************************************************************)
\* a 16-bit sample read back from the output buffer, at byte position p
SampleAt(out, p) == out[p] + 256 * out[p + 1]

\* C1: for every pair of 12-bit values a, b the chunk
\* (a << 12) | ((b & 0xF) << 8) | (b >> 4) is unpacked into exactly two
\* samples, a << 4 followed by b << 4, each a multiple of 16 in 0..65520.
C1_UnpackRoundTrip ==
  /\ from_bytes_unsigned(pcm.rawbytes)
       = pcm.a * 4096 + (pcm.b % 16) * 256 + (pcm.b \div 16)
  /\ pcm.out # <<>> =>
       /\ Len(pcm.out) = 4
       /\ SampleAt(pcm.out, 1) = pcm.a * 16
       /\ SampleAt(pcm.out, 3) = pcm.b * 16
       /\ \A p \in {1, 3} :
            /\ SampleAt(pcm.out, p) % 16 = 0
            /\ SampleAt(pcm.out, p) \in 0..65520

C1_Witness ==
  /\ pcm.out # <<>>
  /\ pcm.a = 2730
  /\ pcm.b = 1365
  /\ pcm.rawbytes = <<170, 165, 85>>

\* the bytes img[4:8] of the image formats.check was called on
CkSignature ==
  [k \in 1..(Min(chk.img.size, 8) - Min(chk.img.size, 4)) |->
     ByteAt(chk.img, 3 + k)]

C3_OnlyTypedErrors ==
  err \in {"none", "FileSizeError", "FormatError"}

\* C4: the size gate (size > 2,000,000) runs before the file is read, format
\* detection before any block is decoded, a file of exactly 2,000,000 bytes
\* passes the gate, and when either check fails no block has been decoded and
\* nothing runs again.
C4_ChecksOrdered ==
  /\ calls.getsize <= 1 /\ calls.read <= 1 /\ calls.check <= 1
  /\ calls.read <= calls.getsize /\ calls.check <= calls.read
  /\ (img # NoImg) => (calls.getsize = 1 /\ file.size <= 2000000)
  /\ (file.size <= 2000000) => err # "FileSizeError"
  /\ (file.size > 2000000 /\ pc # "start") =>
       (pc = "raised" /\ err = "FileSizeError" /\ calls.read = 0)
  /\ (function # NoBlock \/ midi # NoBlock \/ patches # <<>> \/ tones # <<>>) =>
       (calls.check = 1 /\ format # "none")
  /\ (err \in {"FileSizeError", "FormatError"}) =>
       /\ function = NoBlock /\ midi = NoBlock
       /\ patches = <<>> /\ tones = <<>>
       /\ format = "none" /\ wave = NoView
  /\ (pc = "raised") => ~ENABLED Next

C4_Witness ==
  /\ file.size = 2000000
  /\ calls = [getsize |-> 1, read |-> 1, check |-> 1]
  /\ err = "FormatError"
  /\ pc = "raised"

\* C5: an image with a recognized signature and a length other than 737,280
\* bytes is not rejected: construction goes on to completion.  (Stated for
\* the zero-filled images, whose name fields all are ASCII.)
C5_WrongLengthCompletes ==
  (format # "none" /\ file.size # 737280 /\ file.fill = 0) => pc # "raised"

KnownTags == {"int", "signed_int", "multi", "ascii", "raw", "dummy"}

\* C6: read_params fails fast on a layout entry of unknown type tag: once
\* such an entry has been visited decoding has stopped with an error.
C6_UnknownTagFailsFast ==
  \A k \in 1..Len(rp.at) :
    rp.fmt[k].type \notin KnownTags => rp.st.err # "none"

\* the sum of the sizes of the first n fields of a layout
RECURSIVE SizeSum(_, _)
SizeSum(fmt, n) == IF n = 0 THEN 0 ELSE SizeSum(fmt, n - 1) + fmt[n].size

\* C7: for a layout of known type tags whose sizes sum to N, on a window of
\* at least N bytes, read_params advances the cursor by exactly N, visits
\* the fields once in layout order, and leaves one entry per non-dummy field
\* name and none for a dummy field.
C7_ConsumesLayout ==
  LET N == SizeSum(rp.fmt, Len(rp.fmt))
      start == Min(rp.addr, rp.img.size)
      over == rp.k > Len(rp.fmt) \/ rp.st.err # "none"
  IN  ( /\ \A k \in 1..Len(rp.fmt) : rp.fmt[k].type \in KnownTags
        /\ rp.img.size - start >= N
        /\ over ) =>
        /\ rp.st.err = "none"
        /\ rp.st.view.lo = start + N
        /\ Len(rp.at) = Len(rp.fmt)
        /\ \A k \in 1..Len(rp.at) : rp.at[k] = start + SizeSum(rp.fmt, k - 1)
        /\ DOMAIN rp.st.values
             = {rp.fmt[k].name : k \in {j \in 1..Len(rp.fmt) : rp.fmt[j].type # "dummy"}}

\* the big-endian value of the n bytes of b from position lo, from byte j on
RECURSIVE BigEndian(_, _, _, _)
BigEndian(b, lo, n, j) ==
  IF j > n THEN 0
  ELSE ByteAt(b, lo + j - 1) * Pow(256, n - j) + BigEndian(b, lo, n, j + 1)

\* C8: where the window holds the size bytes of a field, int gives their
\* big-endian unsigned value, signed_int their big-endian two's-complement
\* value, multi a tuple of size signed 8-bit values in byte order, and raw
\* the bytes unchanged.
C8_DecodeByTag ==
  \A k \in 1..Len(rp.at) :
    LET f == rp.fmt[k]
        lo == rp.at[k]
        n == f.size
        U == BigEndian(rp.img, lo, n, 1)
        v == rp.st.values[f.name]
    IN  (lo + n <= rp.img.size /\ f.type \in {"int", "signed_int", "multi", "raw"}) =>
          /\ f.name \in DOMAIN rp.st.values
          /\ f.type = "int" => (v = U /\ v \in 0..(Pow(256, n) - 1))
          /\ f.type = "signed_int" =>
               /\ (v - U) % Pow(256, n) = 0
               /\ 2 * v >= -Pow(256, n) /\ 2 * v < Pow(256, n)
          /\ f.type = "multi" =>
               /\ Len(v) = n
               /\ \A j \in 1..n :
                    /\ v[j] \in -128..127
                    /\ (v[j] - ByteAt(rp.img, lo + j - 1)) % 256 = 0
          /\ f.type = "raw" =>
               /\ Len(v) = n
               /\ \A j \in 1..n : v[j] = ByteAt(rp.img, lo + j - 1)

C8_Witness ==
  /\ Len(rp.fmt) = 2 /\ Len(rp.at) = 2
  /\ rp.fmt[1].type = "signed_int" /\ rp.fmt[1].size = 2
  /\ rp.fmt[2].type = "multi" /\ rp.fmt[2].size = 1
  /\ rp.st.err = "none"
  /\ rp.st.values["P1"] = -32767
  /\ rp.st.values["P2"] = <<-128>>

\* C9: after a successful construction with descriptor F there are
\* F.PATCH_COUNT patches and F.TONE_COUNT tones, the block at position i has
\* number i and was decoded at its offset + i * its size, and each object was
\* read once.
C9_BlocksIndexed ==
  pc = "done" =>
    LET F == Descriptor(format)
    IN  /\ Len(patches) = F.PATCH_COUNT
        /\ Len(tones) = F.TONE_COUNT
        /\ \A p \in 1..Len(patches) :
             /\ patches[p].number = p - 1
             /\ patches[p].addr = F.PATCHES_OFFSET + (p - 1) * F.PATCH_SIZE
             /\ patches[p].reads = 1
             /\ patches[p].values["NAME"][4] = ByteAt(file, patches[p].addr + 3)
             /\ patches[p].values["BEND RANGE"] = ByteAt(file, patches[p].addr + 12)
        /\ \A p \in 1..Len(tones) :
             /\ tones[p].number = p - 1
             /\ tones[p].addr = F.TONES_OFFSET + (p - 1) * F.TONE_SIZE
             /\ tones[p].reads = 1
             /\ tones[p].values["WAVE BANK"] = ByteAt(file, tones[p].addr + 13)
             /\ tones[p].values["WAVE SEGMENT TOP"] = ByteAt(file, tones[p].addr + 14)

C9_Witness ==
  /\ pc = "done"
  /\ format = "S50"
  /\ Len(patches) = 8
  /\ patches[3].values["NAME"][4] = 65
  /\ Len(tones) = 32
  /\ tones[32].addr = 73088

RetTone == tones[ListIndex(tones, ret.num)]

\* the wave data the Disk holds, as a bytes object
WaveData == SliceBytes(file, wave)

\* byte at of the wave data
WaveByte(at) == ByteAt(file, wave.lo + at)

\* the 16-bit samples A and B of the chunk at byte at of the wave data,
\* low byte first: A is the first byte and the high nibble of the second,
\* B is the third byte and the low nibble of the second, each times 16
ChunkPcm(at) ==
  LET a == (WaveByte(at) * 16 + (WaveByte(at + 1) \div 16)) * 16
      b == (WaveByte(at + 2) * 16 + (WaveByte(at + 1) % 16)) * 16
  IN  <<a % 256, a \div 256, b % 256, b \div 256>>

\* out is the PCM of the n chunks from byte start of the wave data on
IsPcmOfChunks(out, start, n) ==
  /\ Len(out) = 4 * n
  /\ \A j \in 0..(n - 1) : SubSeq(out, 4 * j + 1, 4 * j + 4) = ChunkPcm(start + 3 * j)

ConvertReturned ==
  pc = "done" /\ ret.op = "convert_wave" /\ ret.err = "none"

C13_EmptyTone ==
  (pc = "done" /\ ret.op # "none" /\ ListIndex(tones, ret.num) # 0
      /\ Tone_length(RetTone) = 0) =>
     /\ ret.err = "none"
     /\ ret.op = "get_wave_start" => ret.val = get_wave_end(RetTone)
     /\ ret.op = "get_wave_end" => ret.val = get_wave_start(RetTone)
     /\ ret.op = "convert_wave" => ret.val = <<>> /\ ret.log = <<>>

\* the end address of an empty tone in bank B, segment top 5
C13_Witness ==
  /\ pc = "done" /\ ret.op = "get_wave_end" /\ ret.num = 0
  /\ Tone_length(RetTone) = 0
  /\ RetTone.values["WAVE BANK"] = 1 /\ RetTone.values["WAVE SEGMENT TOP"] = 5
  /\ ret.val = BANK_SIZE + 5 * SEGMENT_SIZE

\* the complete chunks of the wave data from byte start on
ChunksFrom(start) == Max(0, WaveData.size - start) \div 3

\* C14: when the wave data ends before the tone's end address and a chunk
\* read comes back short, convert_wave stops there without an error and
\* returns the samples of the complete chunks before it, and nothing for
\* the short chunk.
C14_ShortChunkStops ==
  /\ (ConvertReturned /\ ret.log # <<>>) =>
        /\ Len(ret.log) = 1
        /\ ret.log[1].size \in {0, 1, 2}
        /\ IsPcmOfChunks(ret.val, get_wave_start(RetTone),
                         ChunksFrom(get_wave_start(RetTone)))
  /\ (ConvertReturned /\ ~ret.ulp /\ Tone_length(RetTone) > 0
        /\ get_wave_end(RetTone) > WaveData.size) =>
        ret.log # <<>>

\* two complete chunks and then a chunk of 2 bytes
C14_Witness ==
  /\ ConvertReturned /\ ~ret.ulp
  /\ WaveData.size = 8
  /\ ret.log = <<[size |-> 2, addr |-> 6]>>
  /\ Len(ret.val) = 8

\* C15: a tone index outside 0..TONE_COUNT-1 makes convert_wave,
\* get_wave_start, get_wave_end, get_wav and export_wav signal an
\* out-of-bounds error.
C15_IndexChecked ==
  (pc = "done"
     /\ ret.op \in {"convert_wave", "get_wave_start", "get_wave_end",
                    "get_wav", "export_wav"}
     /\ ret.num \notin 0..(Descriptor(format).TONE_COUNT - 1)) =>
     ret.err = "IndexError"


(***************************************************************************)
(* Properties of the DiskBytes cursor.                                     *)
(***************************************************************************)
\* the sum of the n of the first k calls
RECURSIVE CurSum(_, _)
CurSum(hist, k) == IF k = 0 THEN 0 ELSE CurSum(hist, k - 1) + hist[k].n

\* the read offset inside a window of length L after the first k calls
CurOffset(hist, L, k) == Min(L, CurSum(hist, k))

\* C16: on a window of length L, after any pops and skips the read offset
\* is min(L, sum of the n), and each pop(n) returned the window bytes from
\* the offset it found up to min(L, offset + n); so successive pops return
\* ranges that follow one another without overlap.
C16_CursorAdvances ==
  cur # Idle =>
    LET L == cur.win.hi - cur.win.lo
        off(k) == CurOffset(cur.hist, L, k)
    IN  /\ cur.view.lo - cur.win.lo = off(Len(cur.hist))
        /\ cur.view.hi = cur.win.hi
        /\ \A k \in 1..Len(cur.hist) :
             cur.hist[k].op = "pop" =>
               cur.hist[k].result =
                 [j \in 1..(off(k) - off(k - 1)) |->
                    ByteAt(cur.img, cur.win.lo + off(k - 1) + j - 1)]

\* pop(2), skip(1), pop(4) on a window of 4 bytes: the last pop returns the
\* one byte that is left
C16_Witness ==
  /\ cur # Idle
  /\ cur.win = [lo |-> 0, hi |-> 4]
  /\ Len(cur.hist) = 3
  /\ cur.hist[1] = [op |-> "pop", n |-> 2, result |-> <<10, 20>>]
  /\ cur.hist[2].op = "skip" /\ cur.hist[2].n = 1
  /\ cur.hist[3] = [op |-> "pop", n |-> 4, result |-> <<40>>]


(***************************************************************************)
(* Properties of the decoded blocks.                                       *)
(***************************************************************************)
\* the values a plain ParamBlock.read decodes at the address of the tone
PlainTone(tone) ==
  ParamBlock_read(ParamBlock(tone.addr), img, Descriptor(format).tone_fmt).obj.values

\* C17: every decoded tone has FREQUENCY 30000 when the stored byte is 0
\* and 15000 when it is anything else, and the tone just read differs from
\* a plain decode of its block in nothing but FREQUENCY.
C17_FrequencyRemap ==
  (pc \in {"tones", "done"} /\ Len(tones) > 0) =>
    /\ \A p \in 1..Len(tones) :
         LET stored == ByteAt(img, tones[p].addr + 11)
         IN  /\ tones[p].values["FREQUENCY"] \in {30000, 15000}
             /\ stored = 0 => tones[p].values["FREQUENCY"] = 30000
             /\ stored # 0 => tones[p].values["FREQUENCY"] = 15000
    /\ LET tone == tones[Len(tones)]
           plain == PlainTone(tone)
       IN  /\ DOMAIN tone.values = DOMAIN plain
           /\ \A key \in DOMAIN plain \ {"FREQUENCY"} :
                tone.values[key] = plain[key]

\* a Disk whose tone 7 has the FREQUENCY byte 200 and whose tone 0 has 0
C17_Witness ==
  /\ pc = "done"
  /\ ByteAt(img, tones[8].addr + 11) = 200
  /\ tones[8].values["FREQUENCY"] = 15000
  /\ ByteAt(img, tones[1].addr + 11) = 0
  /\ tones[1].values["FREQUENCY"] = 30000


\* C18: tone_list of a decoded patch is the set of the values of TONE TO
\* KEY 1 together with those of TONE TO KEY 2, with no value added and
\* none left out, whether or not it is a valid tone index.
C18_ToneListUnion ==
  (pc = "done" /\ ret.op = "tone_list") =>
    LET patch == patches[ret.num + 1]
        t1 == patch.values["TONE TO KEY 1"]
        t2 == patch.values["TONE TO KEY 2"]
    IN  /\ ret.err = "none"
        /\ \A k \in 1..Len(t1) : t1[k] \in ret.val
        /\ \A k \in 1..Len(t2) : t2[k] \in ret.val
        /\ \A x \in ret.val :
             \/ \E k \in 1..Len(t1) : t1[k] = x
             \/ \E k \in 1..Len(t2) : t2[k] = x
        /\ t1[1] = SignedByte(ByteAt(img, patch.addr
               + LayoutOffset(Descriptor(format).patch_fmt,
                     FieldAt(Descriptor(format).patch_fmt, "TONE TO KEY 1"))))

\* a patch whose tables hold 32 nearly everywhere and the bytes 200, 128
\* and 255: none of the four values is a tone index
C18_Witness ==
  /\ pc = "done" /\ ret.op = "tone_list" /\ ret.num = 7
  /\ ret.val = {32, -56, -128, -1}

\* what a finished lookup returned, against the values of its block
C19_LookupValue ==
  (pc = "done" /\ ret.op = "lookup") =>
    LET values == BlockOf(<<ret.kind, ret.num + 1>>).values
    IN  /\ ret.err = "none"
        /\ ret.key \notin DOMAIN values => ret.val = None
        /\ ret.key \in DOMAIN values => ret.val = values[ret.key]

\* C19: lookup of a key that is not among the decoded values returns None
\* without raising, lookup of a key that is returns its value, and no
\* lookup changes the values of any block.
C19_LookupAbsent ==
  /\ []C19_LookupValue
  /\ [][pc = "done" => UNCHANGED <<function, midi, patches, tones>>]_vars

\* lookup("dummy1") on a tone: the layout has the field, the values do not
C19_Witness ==
  /\ pc = "done" /\ ret.op = "lookup" /\ ret.kind = "tone"
  /\ ret.key = "dummy1" /\ ret.val = None
  /\ "dummy1" \notin DOMAIN tones[ret.num + 1].values


(***************************************************************************)
(* Properties of the WAV wrapping.                                         *)
(***************************************************************************)
\* C20: when export_wav has written a file and get_wav has returned a
\* buffer for the same tone and the same use_loop_points, the two hold the
\* same WAV: 1 channel, 2-byte samples, 44100 Hz whatever the tone's rate,
\* around the same resampled PCM.
C20_SameWav ==
  (pc = "done" /\ fs.written /\ ret.op = "get_wav" /\ ret.err = "none"
     /\ ListIndex(tones, ret.num) = ListIndex(tones, fs.num)
     /\ ret.ulp = fs.ulp) =>
    /\ ret.val = fs.data
    /\ \A wav \in {ret.val, fs.data} :
         /\ wav.nchannels = 1 /\ wav.sampwidth = 2 /\ wav.framerate = 44100
         /\ wav.frames.inrate = RetTone.values["FREQUENCY"]
         /\ wav.frames.outrate = 44100
         /\ wav.frames.fragment =
              convert_wave(WaveData, RetTone, ret.ulp).result

\* export_wav(0, use_loop_points=True) and then get_wav(0, True) on a
\* 15000 Hz tone with END POINT 3: one chunk of PCM in both
C20_Witness ==
  /\ pc = "done" /\ fs.written /\ fs.num = 0 /\ fs.ulp
  /\ ret.op = "get_wav" /\ ret.err = "none" /\ ret.num = 0 /\ ret.ulp
  /\ RetTone.values["FREQUENCY"] = 15000
  /\ Len(fs.data.frames.fragment) = 4

(***************************************************************************)
(* Calls from several threads.                                             *)
(***************************************************************************)
\* what the call with the arguments of l returns when it runs alone on the
\* Disk
CallAlone(l) ==
  LET p == ListIndex(tones, l.num)
      w == SliceBytes(file, wave)
  IN  IF l.op = "get_wave_count"
        THEN [val |-> get_wave_count(tones), err |-> "none"]
      ELSE IF l.op = "resample"
        THEN [val |-> resample(l.wavedata, l.tone_freq), err |-> "none"]
      ELSE IF p = 0 THEN [val |-> 0, err |-> "IndexError"]
      ELSE IF l.op = "get_wave_start"
        THEN [val |-> get_wave_start(tones[p]), err |-> "none"]
      ELSE IF l.op = "get_wave_end"
        THEN [val |-> get_wave_end(tones[p]), err |-> "none"]
      ELSE IF l.op = "convert_wave"
        THEN [val |-> convert_wave(w, tones[p], l.ulp).result, err |-> "none"]
      ELSE IF l.op = "get_wav"
        THEN [val |-> get_wav(w, tones[p], l.ulp), err |-> "none"]
      ELSE [val |-> None, err |-> "none"]

C21_ReturnsAsAlone ==
  /\ \A t \in Threads :
       th[t].pc = "ret" =>
         /\ th[t].err = CallAlone(th[t]).err
         /\ th[t].val = CallAlone(th[t]).val
  /\ fs.written =>
       fs.data = export_wav(SliceBytes(file, wave),
                            tones[ListIndex(tones, fs.num)], fs.ulp)

\* C21: after construction no call of convert_wave, resample, get_wav,
\* export_wav, get_wave_start, get_wave_end or get_wave_count writes a field
\* of the Disk or of its blocks, and in every interleaving of the steps of
\* two such calls each call returns what it returns when it runs alone (and
\* the file export_wav writes is the one it writes alone).
C21_ReadOnlyCalls ==
  /\ []C21_ReturnsAsAlone
  /\ [][pc = "done" => UNCHANGED <<format, sys, os_ver, wave, function, midi,
                                   patches, tones>>]_vars

\* one thread has returned the WAV data of tone 0 while the other is inside
\* the loop of convert_wave on the same tone, one chunk converted
C21_Witness ==
  /\ pc = "done"
  /\ th[1].pc = "ret" /\ th[1].op = "get_wav" /\ th[1].err = "none"
  /\ th[1].val.frames.fragment # <<>>
  /\ th[2].pc = "loop" /\ th[2].op = "convert_wave" /\ th[2].num = 0
  /\ th[2].st.samples_read = 2

(***************************************************************************)
(* The end-to-end scenario.                                                *)
(***************************************************************************)
\* the byte of the wave data the non-zero chunk begins at
ScenarioChunkAt == CHOOSE at \in ScenarioAt : WaveByte(at) # 0

ScenarioConverted ==
  ConvertReturned /\ ret.num = 0 /\ ~ret.ulp

\* C22 as stated: on the scenario image, converting tone 0 without loop
\* points yields exactly 2 samples, the unpacking of the non-zero chunk.
C22_TwoSamples ==
  ScenarioConverted =>
    /\ Len(ret.val) = 4
    /\ ret.val = ChunkPcm(ScenarioChunkAt)

\* C22, amended: on the scenario image tone 0 is a 30000 Hz tone of one
\* segment, and converting it without loop points yields the 12288 samples
\* of the segment's 6144 chunks: the two samples of the non-zero chunk, at
\* the chunk's place, equal to the unpacking formula, and 0 everywhere else.
C22_Scenario ==
  ScenarioConverted =>
    LET j == ScenarioChunkAt \div 3
    IN  /\ RetTone.values["FREQUENCY"] = 30000
        /\ Len(ret.val) = 2 * 12288
        /\ SubSeq(ret.val, 4 * j + 1, 4 * j + 4) = ChunkPcm(ScenarioChunkAt)
        /\ ChunkPcm(ScenarioChunkAt) # <<0, 0, 0, 0>>
        /\ \A q \in 1..Len(ret.val) :
             (q <= 4 * j \/ q > 4 * j + 4) => ret.val[q] = 0

\* tone 0 converted in full on the image whose chunk 12 34 56 lies at byte
\* 300: samples 0x1230 and 0x5640 at bytes 401..404 of the result
C22_Witness ==
  /\ ScenarioConverted
  /\ WaveByte(300) = 18
  /\ Len(ret.val) = 24576
  /\ SubSeq(ret.val, 401, 404) = <<48, 18, 64, 86>>

(***************************************************************************)
(* START POINT and END POINT under use_loop_points.                        *)
(***************************************************************************)
\* samples lo..(hi - 1), counted from 0, of the 16-bit PCM buffer out
SamplesOf(out, lo, hi) ==
  IF lo >= hi \/ 2 * lo >= Len(out) THEN <<>>
  ELSE SubSeq(out, 2 * lo + 1, Min(2 * hi, Len(out)))

\* C23: with use_loop_points, convert_wave uses START POINT as well as END
\* POINT: what it returns is a run of the tone's sample stream that begins
\* at sample START POINT, so that no sample before START POINT is part of
\* the output.
C23_StartPointUsed ==
  (ConvertReturned /\ ret.ulp) =>
     LET full == convert_wave(WaveData, RetTone, FALSE).result
         first == RetTone.values["START POINT"]
     IN  ret.val = SamplesOf(full, first, first + Len(ret.val) \div 2)

(***************************************************************************)
(* The OS version text.                                                    *)
(***************************************************************************)
\* bytes 32..62 of the System region, as far as the file has them
VersionBytes ==
  [k \in 1..Max(0, Min(63, Min(file.size, SYS_READ)) - 32) |-> ByteAt(file, 31 + k)]

\* the positions of Disk.__init__ behind the version text
VersionDone == pc \in {"wave", "function", "midi", "patches", "tones", "done"}

\* no whitespace at either end of t and none next to other whitespace
NoSpareWhitespace(t) ==
  /\ t # <<>> => (t[1] \notin Whitespace /\ t[Len(t)] \notin Whitespace)
  /\ \A k \in 1..(Len(t) - 1) : ~(t[k] \in Whitespace /\ t[k + 1] \in Whitespace)

C24_VersionState ==
  /\ (VersionDone /\ \E k \in 1..Len(VersionBytes) : VersionBytes[k] >= 128) =>
        /\ ~os_ver.set
        /\ \E k \in 1..Len(log) : log[k] = "Unable to decode version string"
  /\ (VersionDone /\ \A k \in 1..Len(VersionBytes) : VersionBytes[k] < 128) =>
        /\ os_ver.set
        /\ NoSpareWhitespace(os_ver.text)
        /\ \A k \in 1..Len(log) : log[k] # "Unable to decode version string"
  /\ (pc = "done" \/ (pc = "raised" /\ sys # NoView)) =>
        wave = DiskBytes(file, WAVE_SEEK, WAVE_SEEK + WAVE_READ)
  /\ pc = "done" =>
        /\ function.reads = 1 /\ midi.reads = 1
        /\ Len(patches) = Descriptor(format).PATCH_COUNT
        /\ Len(tones) = Descriptor(format).TONE_COUNT

\* C24: a version text (bytes 32..62 of the System region) that is not
\* ASCII does not fail construction: the step that decodes it always goes
\* on to the wave data, the OS version stays unset and the failure is
\* reported; the wave region and then the Function, MIDI, Patch and Tone
\* blocks are read afterwards.  A text that is ASCII is stored without
\* leading, trailing or consecutive whitespace.
C24_VersionNonFatal ==
  /\ []C24_VersionState
  /\ [][pc = "sys" => (pc' = "wave" /\ err' = "none")]_vars
  /\ [][pc = "wave" => (pc' = "function" /\ err' = "none")]_vars

\* construction completed on an image whose version text is not ASCII
C24_Witness ==
  /\ pc = "done" /\ err = "none"
  /\ \E k \in 1..Len(VersionBytes) : VersionBytes[k] >= 128
  /\ ~os_ver.set
  /\ Len(tones) = 32

(***************************************************************************)
(* Block layouts and block addresses.                                      *)
(***************************************************************************)
\* where the cursor of a block read stands after the layout fmt has been
\* decoded from the address addr of the image
CursorAfter(addr, fmt) ==
  read_params(img, DiskBytes(img, addr, -1), EmptyDict, fmt).view.lo

\* the blocks of the list bs, decoded with the layout fmt, lie one behind
\* the other from the address first on, each size bytes long
BlocksInRow(bs, fmt, first, size) ==
  /\ SizeSum(fmt, Len(fmt)) = size
  /\ \A p \in 1..Len(bs) :
       /\ bs[p].addr = first + (p - 1) * size
       /\ p < Len(bs) => bs[p].addr + SizeSum(fmt, Len(fmt)) = bs[p + 1].addr

\* C25: for the S550 and the S50 descriptor the field sizes of tone_fmt sum
\* to TONE_SIZE = 128 and those of patch_fmt to PATCH_SIZE (256 for the
\* S550, 512 for the S50), so the byte ranges decoded for adjacent blocks
\* are disjoint and contiguous; the patch array ends exactly at the Function
\* offset 68608 and the tone array at or before the wave offset 73728.
C25_LayoutsFitStrides ==
  format # "none" =>
    LET F == Descriptor(format)
    IN  /\ F.TONE_SIZE = 128
        /\ F.PATCH_SIZE = (IF format = "S550" THEN 256 ELSE 512)
        /\ BlocksInRow(patches, F.patch_fmt, F.PATCHES_OFFSET, F.PATCH_SIZE)
        /\ BlocksInRow(tones, F.tone_fmt, F.TONES_OFFSET, F.TONE_SIZE)
        /\ F.PATCHES_OFFSET + F.PATCH_COUNT * SizeSum(F.patch_fmt, Len(F.patch_fmt))
             = 68608
        /\ F.TONES_OFFSET + F.TONE_COUNT * SizeSum(F.tone_fmt, Len(F.tone_fmt))
             <= 73728
        /\ (pc = "done" /\ ret = NoRet /\ file.size = IMAGE_SIZE) =>
              /\ CursorAfter(patches[1].addr, F.patch_fmt) = patches[2].addr
              /\ CursorAfter(patches[Len(patches)].addr, F.patch_fmt) = FUNCTION_ADDR
              /\ CursorAfter(tones[1].addr, F.tone_fmt) = tones[2].addr
              /\ CursorAfter(tones[Len(tones)].addr, F.tone_fmt) <= WAVE_SEEK

\* an S50 Disk with all 8 patches and 32 tones decoded
C25_Witness ==
  /\ pc = "done" /\ format = "S50" /\ file.size = IMAGE_SIZE
  /\ Len(patches) = 8 /\ patches[8].addr = 68096
  /\ Len(tones) = 32 /\ tones[32].addr = 73088

(***************************************************************************)
(* The number of samples under use_loop_points.                            *)
(***************************************************************************)
\* the complete 3-byte chunks the wave data holds inside the range of the
\* tone
ChunksAvailable(tone) ==
  LET size == wave.hi - wave.lo
  IN  Max(0, Min(get_wave_end(tone), size) - Min(get_wave_start(tone), size)) \div 3

InsideBank(tone) ==
  /\ tone.values["WAVE BANK"] \in {0, 1}
  /\ tone.values["WAVE SEGMENT TOP"] \in 0..17
  /\ tone.values["WAVE SEGMENT LENGTH"] \in 0..18
  /\ tone.values["WAVE SEGMENT TOP"] + tone.values["WAVE SEGMENT LENGTH"] <= 18

\* a tone of bank B whose segments run past the 18 segments of the bank
PastBankB(tone) ==
  /\ tone.values["WAVE BANK"] = 1
  /\ tone.values["WAVE SEGMENT TOP"] \in 0..17
  /\ tone.values["WAVE SEGMENT LENGTH"] \in 0..18
  /\ tone.values["WAVE SEGMENT TOP"] + tone.values["WAVE SEGMENT LENGTH"] > 18

\* the first byte of the bank of a tone of bank A or B
BankBase(tone) == tone.values["WAVE BANK"] * 331776

FullSize == file.size = IMAGE_SIZE

C30_SameRange ==
  ConvertReturned =>
    ret.range = <<get_wave_start(RetTone), get_wave_end(RetTone)>>

\* convert_wave on a tone of bank 255, segment top 17, segment length 255
C30_Witness ==
  /\ ConvertReturned
  /\ RetTone.values["WAVE BANK"] = 255
  /\ RetTone.values["WAVE SEGMENT TOP"] = 17
  /\ RetTone.values["WAVE SEGMENT LENGTH"] = 255
  /\ ret.range = <<313344, 5013504>>

(***************************************************************************)
(* Short reads of read_params.                                             *)
(***************************************************************************)
\* how many of the n bytes from position lo on the image of rp holds
BytesLeft(lo, n) == Max(0, Min(n, rp.img.size - lo))

\* the n bytes of the image of rp from position lo on
BytesFrom(lo, n) == [j \in 1..n |-> ByteAt(rp.img, lo + j - 1)]

\* the two's-complement value of the n bytes from position lo on
SignedFrom(lo, n) ==
  LET U == BigEndian(rp.img, lo, n, 1)
  IN  IF n > 0 /\ 2 * U >= Pow(256, n) THEN U - Pow(256, n) ELSE U

StoredInside(fmt, base, lo, hi) ==
  \A k \in 1..Len(fmt) :
    fmt[k].type # "dummy" =>
      /\ lo <= base + LayoutOffset(fmt, k)
      /\ base + LayoutOffset(fmt, k) + fmt[k].size <= hi

\* the bytes of the image that field k of fmt covers in the region
\* beginning at lo
RegionBytes(fmt, k, lo) ==
  [j \in 1..fmt[k].size |-> ByteAt(img, lo + LayoutOffset(fmt, k) + j - 1)]

\* every stored value of the block blk is the one decoded from its field's
\* bytes in the region beginning at lo
StoredFrom(blk, fmt, lo) ==
  \A k \in 1..Len(fmt) :
    LET f == fmt[k]
        bs == RegionBytes(fmt, k, lo)
    IN  f.type # "dummy" =>
          /\ f.name \in DOMAIN blk.values
          /\ f.type = "int" => blk.values[f.name] = from_bytes_unsigned(bs)
          /\ f.type = "signed_int" => blk.values[f.name] = from_bytes_signed(bs)
          /\ f.type = "multi" => blk.values[f.name] = unpack_b(bs)
          /\ f.type = "raw" => blk.values[f.name] = bs

\* the layout ends with a dummy skip that runs from inside [base, next) to
\* past next
TrailingSkipPast(fmt, base, next) ==
  /\ fmt[Len(fmt)].type = "dummy"
  /\ base + LayoutOffset(fmt, Len(fmt)) < next
  /\ base + SizeSum(fmt, Len(fmt)) > next

\* C29: for both descriptors every stored (non-dummy) field of the Function
\* layout occupies bytes inside [68608, 68832) and every stored field of
\* the MIDI layout bytes inside [68832, 69120), so no stored Function or
\* MIDI value is read from another block's region; only the S550 totals
\* (224 and 288 bytes) equal the region sizes, the S50 layouts total 384
\* bytes each and their trailing dummy skip runs past the start of the next
\* block.
C29_StoredFieldsInsideRegions ==
  format # "none" =>
    LET F == Descriptor(format)
    IN  /\ StoredInside(F.func_fmt, FUNCTION_ADDR, 68608, 68832)
        /\ StoredInside(F.midi_fmt, MIDI_ADDR, 68832, 69120)
        /\ function # NoBlock =>
             /\ function.addr = 68608
             /\ img.size >= 69120 => StoredFrom(function, F.func_fmt, 68608)
        /\ midi # NoBlock =>
             /\ midi.addr = 68832
             /\ img.size >= 69120 => StoredFrom(midi, F.midi_fmt, 68832)
        /\ format = "S550" =>
             /\ SizeSum(F.func_fmt, Len(F.func_fmt)) = 224
             /\ SizeSum(F.midi_fmt, Len(F.midi_fmt)) = 288
             /\ 68608 + 224 = 68832 /\ 68832 + 288 = 69120
        /\ format = "S50" =>
             /\ SizeSum(F.func_fmt, Len(F.func_fmt)) = 384
             /\ SizeSum(F.midi_fmt, Len(F.midi_fmt)) = 384
             /\ TrailingSkipPast(F.func_fmt, 68608, 68832)
             /\ TrailingSkipPast(F.midi_fmt, 68832, 69120)
             /\ (midi # NoBlock /\ img.size = IMAGE_SIZE) =>
                  /\ CursorAfter(function.addr, F.func_fmt) = 68992
                  /\ CursorAfter(midi.addr, F.midi_fmt) = 69216

\* an S50 Disk built from an image whose Function and MIDI regions hold a
\* different byte at every position: DEVICE ID, the last stored MIDI field,
\* is the byte at 68832 + 98, and DT-100, the last stored Function field,
\* the byte at 68608 + 113
C29_Witness ==
  /\ pc = "done" /\ format = "S50" /\ img.size = IMAGE_SIZE
  /\ midi.values["DEVICE ID"] = RegionMark(68832 + 98)
  /\ function.values["DT-100"] = RegionMark(68608 + 113)
  /\ midi.values["DEVICE ID"] # function.values["DT-100"]

=============================================================================
